---- MODULE Spec2Model ----
(***************************************************************************)
(* Model of the construction-assistant orchestrator                        *)
(* (src/src/construction_assistant/enhanced_langgraph_agent.py).           *)
(*                                                                         *)
(* Text is a sequence of one-character strings.  The Run State is a        *)
(* function from channel names to values, as the graph engine keeps it:    *)
(* one channel per key of the AgentState schema.  A node is an operator    *)
(* from the state it is handed to the dict it returns; the engine merges   *)
(* the returned dict into the channels and follows the edges.              *)
(***************************************************************************)
EXTENDS Integers, Sequences, FiniteSets, TLC

\* ------------------------------------------------------------------------
\* Bounds of the model
\* ------------------------------------------------------------------------
MaxPieces == 2
MaxBidsPerCall == 2
MaxTopN == 1
MaxMinBids == 2
MaxRetries == 2
\* entries the history variables path and src_log keep; no run needs more
MaxPath == 11
\* pieces of a prompt handed to the extractor alone
MaxExtractPieces == 3
\* bids and top_n handed to the ranker alone
MaxRankBids == 3
MaxRankTopN == 3

\* ------------------------------------------------------------------------
\* Text
\* ------------------------------------------------------------------------
LowerAlpha ==
  << "a", "b", "c", "d", "e", "f", "g", "h", "i", "j", "k", "l", "m",
     "n", "o", "p", "q", "r", "s", "t", "u", "v", "w", "x", "y", "z" >>

UpperAlpha ==
  << "A", "B", "C", "D", "E", "F", "G", "H", "I", "J", "K", "L", "M",
     "N", "O", "P", "Q", "R", "S", "T", "U", "V", "W", "X", "Y", "Z" >>

Digits == { "0", "1", "2", "3", "4", "5", "6", "7", "8", "9" }

IsUpperChar(c) == \E i \in 1..26 : UpperAlpha[i] = c
IsLowerChar(c) == \E i \in 1..26 : LowerAlpha[i] = c
IsDigit(c) == c \in Digits
\* \w of the re module: letters, digits and the underscore
IsWordChar(c) == IsUpperChar(c) \/ IsLowerChar(c) \/ IsDigit(c) \/ c = "_"

\* str.upper() and str.lower(), character by character
UpperChar(c) ==
  IF IsLowerChar(c) THEN UpperAlpha[CHOOSE i \in 1..26 : LowerAlpha[i] = c]
  ELSE c

LowerChar(c) ==
  IF IsUpperChar(c) THEN LowerAlpha[CHOOSE i \in 1..26 : UpperAlpha[i] = c]
  ELSE c

Upper(s) == [i \in 1..Len(s) |-> UpperChar(s[i])]
Lower(s) == [i \in 1..Len(s) |-> LowerChar(s[i])]

\* s[a..b-1], the slice a Python match object returns
Slice(s, a, b) == [i \in 1..(b - a) |-> s[a + i - 1]]

\* `sub in s`
Contains(s, sub) ==
  \E i \in 1..(Len(s) - Len(sub) + 1) : Slice(s, i, i + Len(sub)) = sub

\* first position >= i whose character is not accepted by the class
\* (Len(s)+1 when the run reaches the end of the text)
UpperRunEnd(s, i) ==
  CHOOSE j \in i..(Len(s) + 1) :
    /\ \A k \in i..(j - 1) : IsUpperChar(s[k])
    /\ (j <= Len(s) => ~IsUpperChar(s[j]))

DigitRunEnd(s, i) ==
  CHOOSE j \in i..(Len(s) + 1) :
    /\ \A k \in i..(j - 1) : IsDigit(s[k])
    /\ (j <= Len(s) => ~IsDigit(s[j]))

\* The python value None where a text is expected (never a text: its one
\* element is not a character).
None == << "None" >>
\* A JSON number where a text is expected (a backend reply such as
\* {"project_id": 42}): truthy and not a str.
Number == << "Number" >>
IsStr(v) == v # None /\ v # Number
\* python truthiness of an optional text
Truthy(v) == v # None /\ v # <<>>

\* ------------------------------------------------------------------------
\* _parse_with_regex: re.search(r'([A-Z]+[-]?\d+|P[-]?\d+)', prompt.upper())
\* ------------------------------------------------------------------------
\* end (exclusive) of the match of [A-Z]+[-]?\d+ that starts at i, 0 if none
IdAlt1End(s, i) ==
  IF i > Len(s) \/ ~IsUpperChar(s[i]) THEN 0
  ELSE LET j == UpperRunEnd(s, i) IN
       IF j <= Len(s) /\ s[j] = "-" /\ j + 1 <= Len(s) /\ IsDigit(s[j + 1])
         THEN DigitRunEnd(s, j + 1)
       ELSE IF j <= Len(s) /\ IsDigit(s[j]) THEN DigitRunEnd(s, j)
       ELSE 0

\* end (exclusive) of the match of P[-]?\d+ that starts at i, 0 if none
IdAlt2End(s, i) ==
  IF i > Len(s) \/ s[i] # "P" THEN 0
  ELSE IF i + 2 <= Len(s) /\ s[i + 1] = "-" /\ IsDigit(s[i + 2])
         THEN DigitRunEnd(s, i + 2)
       ELSE IF i + 1 <= Len(s) /\ IsDigit(s[i + 1]) THEN DigitRunEnd(s, i + 1)
       ELSE 0

\* the match at i: the first alternative that matches
IdEnd(s, i) == IF IdAlt1End(s, i) # 0 THEN IdAlt1End(s, i) ELSE IdAlt2End(s, i)

\* re.search(...).group(1), or None
SearchProjectId(s) ==
  IF \E i \in 1..Len(s) : IdEnd(s, i) # 0
    THEN LET i == CHOOSE i \in 1..Len(s) :
                    IdEnd(s, i) # 0 /\ \A k \in 1..(i - 1) : IdEnd(s, k) = 0
         IN Slice(s, i, IdEnd(s, i))
  ELSE None

scope_keywords ==
  << << "f", "o", "u", "n", "d", "a", "t", "i", "o", "n" >>,
     << "e", "x", "c", "a", "v", "a", "t", "i", "o", "n" >>,
     << "e", "l", "e", "c", "t", "r", "i", "c", "a", "l" >>,
     << "p", "l", "u", "m", "b", "i", "n", "g" >>,
     << "r", "o", "o", "f", "i", "n", "g" >>,
     << "s", "i", "t", "e", " ", "c", "l", "e", "a", "r", "i", "n", "g" >>,
     << "H", "V", "A", "C" >> >>

\* next((kw for kw in scope_keywords if kw.lower() in prompt.lower()), None)
SearchScope(prompt) ==
  IF \E n \in 1..Len(scope_keywords) : Contains(Lower(prompt), Lower(scope_keywords[n]))
    THEN scope_keywords[CHOOSE n \in 1..Len(scope_keywords) :
           /\ Contains(Lower(prompt), Lower(scope_keywords[n]))
           /\ \A m \in 1..(n - 1) : ~Contains(Lower(prompt), Lower(scope_keywords[m]))]
  ELSE None

_parse_with_regex(prompt) ==
  [project_id |-> SearchProjectId(Upper(prompt)), scope |-> SearchScope(prompt)]

\* ------------------------------------------------------------------------
\* _clarify_node: re.findall(r'\b[A-Z]+-\d+\b', prompt), first element
\* ------------------------------------------------------------------------
\* end (exclusive) of the match of \b[A-Z]+-\d+\b that starts at i, 0 if none
ClarifyEnd(s, i) ==
  IF i > Len(s) \/ ~IsUpperChar(s[i]) THEN 0
  ELSE IF i > 1 /\ IsWordChar(s[i - 1]) THEN 0
  ELSE LET j == UpperRunEnd(s, i) IN
       IF j <= Len(s) /\ s[j] = "-" /\ j + 1 <= Len(s) /\ IsDigit(s[j + 1])
         THEN LET k == DigitRunEnd(s, j + 1) IN
              IF k <= Len(s) /\ IsWordChar(s[k]) THEN 0 ELSE k
       ELSE 0

\* all_numbers[0] if all_numbers else "UNKNOWN"
UNKNOWN == << "U", "N", "K", "N", "O", "W", "N" >>

FindAllFirst(s) ==
  IF \E i \in 1..Len(s) : ClarifyEnd(s, i) # 0
    THEN LET i == CHOOSE i \in 1..Len(s) :
                    ClarifyEnd(s, i) # 0 /\ \A k \in 1..(i - 1) : ClarifyEnd(s, k) = 0
         IN Slice(s, i, ClarifyEnd(s, i))
  ELSE UNKNOWN

\* ------------------------------------------------------------------------
\* Dicts: a python dict is a function from its keys to its values
\* ------------------------------------------------------------------------
EmptyDict == [k \in {} |-> TRUE]

\* The python value None where a dict is expected
NoneDict == "None" :> TRUE

\* d.get(k, default)
Get(d, k, default) == IF k \in DOMAIN d THEN d[k] ELSE default

\* ------------------------------------------------------------------------
\* schema.py: the channels of the Run State
\* ------------------------------------------------------------------------
AgentState ==
  { "prompt", "project_id", "scope", "bids", "comparison", "recommendation",
    "tool_calls", "tool_results" }

\* StateGraph(AgentState): the engine writes the keys of a node's returned
\* dict that are channels of the schema, and hands every node the channels.
Merge(state, ret) ==
  [k \in DOMAIN state |-> IF k \in DOMAIN ret /\ k \in AgentState THEN ret[k] ELSE state[k]]

\* ------------------------------------------------------------------------
\* The collaborators' behaviours
\* ------------------------------------------------------------------------
Vendors == { "ACME", "Builders" }
Prices == { 1, 2 }
LeadTime == 7

Bid == [subcontractor : Vendors, price : Prices, lead_time_days : {LeadTime}]

SeqsUpTo(S, n) == UNION { [1..m -> S] : m \in 0..n }

\* the bids the Bid Source hands out in a run
SourceBids ==
  { [subcontractor |-> "ACME", price |-> 2, lead_time_days |-> LeadTime],
    [subcontractor |-> "Builders", price |-> 1, lead_time_days |-> LeadTime] }

\* what fetch_subcontractor_bids(...)["bids"] can be
BidLists == SeqsUpTo(SourceBids, MaxBidsPerCall)

\* fetch_subcontractor_bids iterates over a truthy project_id with ord():
\* a project_id that is not a str makes it raise TypeError
fetch_subcontractor_bids_raises(project_id) == Truthy(project_id) /\ ~IsStr(project_id)

roofing == << "r", "o", "o", "f", "i", "n", "g" >>
excavation == << "e", "x", "c", "a", "v", "a", "t", "i", "o", "n" >>
concrete == << "c", "o", "n", "c", "r", "e", "t", "e" >>
general == << "g", "e", "n", "e", "r", "a", "l" >>
general_construction ==
  << "g", "e", "n", "e", "r", "a", "l", " ",
     "c", "o", "n", "s", "t", "r", "u", "c", "t", "i", "o", "n" >>

\* what the text-generation backend can answer to the extraction request:
\* it raises (or its reply is not JSON), it replies a JSON value that is not
\* an object, or it replies an object (a missing key reads as None)
LlmParseReplies ==
  { [kind |-> "raise"],
    [kind |-> "nonobject"],
    [kind |-> "object", project_id |-> << "X", "-", "9" >>, scope |-> roofing],
    [kind |-> "object", project_id |-> None, scope |-> None],
    [kind |-> "object", project_id |-> Number, scope |-> roofing],
    [kind |-> "object", project_id |-> << "X", "-", "9" >>, scope |-> Number] }

\* what the backend can answer to the formatting request
LlmText == << [line |-> "llm"] >>
LlmFormatReplies == { "raise", "text" }

\* ------------------------------------------------------------------------
\* State
\* ------------------------------------------------------------------------
VARIABLES
  self,     \* the agent's configuration: top_n, min_bids, max_retries, llm
  pc,       \* the node the engine runs next; "END" after format, "raised"
            \* when an exception left run()
  state,    \* the channels of the Run State
  ret,      \* the dict the last node returned
  path,     \* the nodes executed so far, in order
  src_log,  \* how many bids each call of the Bid Source returned (-1: it raised)
  returned, \* what run() returned (the empty dict before)
  direct,   \* TRUE when a node is called directly on a hand-built state,
            \* as the unit tests do, instead of through run()
  cache,    \* the ToolCache object: memory_cache, cache_dir (set or not), ttl
  files,    \* the <key>.json files under the cache directory
  now,      \* datetime.now(), in seconds
  set_log,  \* the payload last handed to set for each (tool name, input),
            \* and when
  cache_ret, \* the last call on the cache: its arguments and its result, and
            \* the number of calls made so far
  dir_mode, \* whether the cache directory can be created and written
  threads,  \* the runs that share the cache: the call each is in, the line of
            \* get or set it is at, and the result of its last call
  pool      \* a call of execute_tools_parallel: the executor's configuration,
            \* the tool calls and how far each one is, the strategies
            \* taken and the results collected

runvars == << self, pc, state, ret, path, src_log, returned, direct >>
cachevars == << cache, files, now, set_log, cache_ret, dir_mode, threads >>
poolvars == << pool >>
vars == << runvars, cachevars, poolvars >>

\* no parallel executor is in use: the orchestrators invoke their tools
\* one after the other
PoolUnused == pool = [pc |-> "unused"]

\* no cache is in use: the orchestrators' tools are not wrapped
CacheUnused ==
  /\ cache = [memory_cache |-> << >>, cache_dir |-> FALSE, ttl |-> 1]
  /\ files = << >>
  /\ now = 0
  /\ set_log = << >>
  /\ cache_ret = [op |-> "none", calls |-> 0]
  /\ dir_mode = "writable"
  /\ threads = << >>

\* ------------------------------------------------------------------------
\* agent.py: compare_bids
\* ------------------------------------------------------------------------
\* sorted(bids, key=price) is stable: a bid goes after every bid that is
\* not more expensive
\* an insertion that puts a bid before the bids of equal price
RECURSIVE InsertByPrice_before_equals(_, _)
InsertByPrice_before_equals(sorted, b) ==
  IF sorted = <<>> THEN << b >>
  ELSE IF sorted[Len(sorted)].price < b.price THEN Append(sorted, b)
  ELSE Append(InsertByPrice_before_equals(SubSeq(sorted, 1, Len(sorted) - 1), b),
              sorted[Len(sorted)])

RECURSIVE InsertByPrice(_, _)
InsertByPrice(sorted, b) ==
  IF sorted = <<>> THEN << b >>
  ELSE IF sorted[Len(sorted)].price <= b.price THEN Append(sorted, b)
  ELSE Append(InsertByPrice(SubSeq(sorted, 1, Len(sorted) - 1), b), sorted[Len(sorted)])

\* the bids left in the order received
SortedByPrice_unsorted(bids) == bids

RECURSIVE SortedByPrice(_)
SortedByPrice(bids) ==
  IF bids = <<>> THEN <<>>
  ELSE InsertByPrice(SortedByPrice(SubSeq(bids, 1, Len(bids) - 1)), bids[Len(bids)])

RECURSIVE SumPrices(_)
SumPrices(bids) ==
  IF bids = <<>> THEN 0 ELSE bids[1].price + SumPrices(Tail(bids))

Min(a, b) == IF a <= b THEN a ELSE b

Max(a, b) == IF a >= b THEN a ELSE b

\* s[:n]: the first n elements, all of s when n exceeds its length, and
\* all but the last -n when n is negative
SliceTo(s, n) ==
  IF n >= 0 THEN SubSeq(s, 1, Min(n, Len(s)))
  ELSE SubSeq(s, 1, Max(Len(s) + n, 0))

\* the ranker averaging the selected bids only
compare_bids_average_of_top(bids, top_n) ==
  IF bids = <<>> THEN ("top" :> <<>> @@ "count" :> 0)
  ELSE LET top == SliceTo(SortedByPrice(bids), top_n)
       IN "top" :> top
          @@ "count" :> Len(bids)
          @@ "average_price" :> [num |-> SumPrices(top), den |-> Len(top)]

\* the ranker with an average reported for the empty list too
compare_bids_average_always(bids, top_n) ==
  "top" :> SliceTo(SortedByPrice(bids), top_n)
  @@ "count" :> Len(bids)
  @@ "average_price" :> [num |-> SumPrices(bids), den |-> Len(bids)]

\* average_price is the quotient num / den
compare_bids(bids, top_n) ==
  IF bids = <<>> THEN ("top" :> <<>> @@ "count" :> 0)
  ELSE ("top" :> SliceTo(SortedByPrice(bids), top_n)
        @@ "count" :> Len(bids)
        @@ "average_price" :> [num |-> SumPrices(bids), den |-> Len(bids)])

\* ------------------------------------------------------------------------
\* enhanced_langgraph_agent.py: the nodes.  A node maps the state it is
\* handed (and what its collaborator answers) to the dict it returns.
\* Confidence is counted in tenths.
\* ------------------------------------------------------------------------
_parse_with_llm(prompt, reply) ==
  IF reply.kind = "raise" THEN _parse_with_regex(prompt)
  ELSE reply

\* result.get(...) on a reply that is not a JSON object raises AttributeError
_parse_node_raises(st, reply) == self.llm /\ reply.kind = "nonobject"

_parse_node(st, reply) ==
  LET prompt == Get(st, "prompt", <<>>)
      result == IF self.llm THEN _parse_with_llm(prompt, reply)
                ELSE _parse_with_regex(prompt)
      confidence == IF self.llm THEN 9
                    ELSE IF Truthy(result.project_id) THEN 6 ELSE 3
  IN "project_id" :> result.project_id
     @@ "scope" :> result.scope
     @@ "_parse_confidence" :> confidence

_validate_parse_node(st) ==
  LET project_id == Get(st, "project_id", None)
      confidence == Get(st, "_parse_confidence", 0)
      validation_passed == project_id # None /\ confidence > 5
  IN "_validation_passed" :> validation_passed
     @@ "_parse_confidence" :> confidence

\* the router with the missing flag read as passed
_router_after_validation_default_true(st) ==
  IF Get(st, "_validation_passed", TRUE) THEN "fetch" ELSE "clarify"

_router_after_validation(st) ==
  IF Get(st, "_validation_passed", FALSE) THEN "fetch" ELSE "clarify"

_clarify_node(st) ==
  LET prompt == Get(st, "prompt", <<>>)
      project_id == IF ~Truthy(Get(st, "project_id", None))
                      THEN FindAllFirst(prompt)
                    ELSE Get(st, "project_id", None)
      scope == IF Truthy(Get(st, "scope", None)) THEN Get(st, "scope", None)
               ELSE general_construction
  IN "project_id" :> project_id
     @@ "scope" :> scope
     @@ "_validation_passed" :> TRUE

_fetch_node_raises(st) == fetch_subcontractor_bids_raises(Get(st, "project_id", None))

\* the retry budget compared with <= instead of <
_fetch_node_off_by_one(st, bids) ==
  LET fetch_attempts == Get(st, "_fetch_attempts", 0)
  IN "bids" :> bids
     @@ "_fetch_attempts" :> fetch_attempts + 1
     @@ "_needs_refetch" :>
          (Len(bids) < self.min_bids /\ fetch_attempts <= self.max_retries)

_fetch_node(st, bids) ==
  LET fetch_attempts == Get(st, "_fetch_attempts", 0)
  IN "bids" :> bids
     @@ "_fetch_attempts" :> fetch_attempts + 1
     @@ "_needs_refetch" :>
          (Len(bids) < self.min_bids /\ fetch_attempts < self.max_retries)

_router_after_fetch(st) ==
  IF Get(st, "_needs_refetch", FALSE) THEN "refetch" ELSE "compare"

_refetch_node_raises(st) == fetch_subcontractor_bids_raises(Get(st, "project_id", None))

\* the retry keeping the newly fetched bids only
_refetch_node_replaces(st, bids) ==
  "bids" :> SliceTo(bids, 10)
  @@ "_fetch_attempts" :> Get(st, "_fetch_attempts", 0) + 1
  @@ "_needs_refetch" :>
       (Len(bids) < self.min_bids
        /\ Get(st, "_fetch_attempts", 0) < self.max_retries)

_refetch_node(st, bids) ==
  LET existing_bids == Get(st, "bids", <<>>)
      all_bids == existing_bids \o bids
  IN "bids" :> SliceTo(all_bids, 10)
     @@ "_fetch_attempts" :> Get(st, "_fetch_attempts", 0) + 1
     @@ "_needs_refetch" :>
          (Len(all_bids) < self.min_bids
           /\ Get(st, "_fetch_attempts", 0) < self.max_retries)

\* the node sorting the list of the Run State in place (bids.sort) before
\* ranking it
_compare_node_sorts_in_place(st) ==
  "comparison" :> compare_bids(Get(st, "bids", <<>>), self.top_n)
  @@ "bids" :> SortedByPrice(Get(st, "bids", <<>>))

_compare_node(st) ==
  "comparison" :> compare_bids(Get(st, "bids", <<>>), self.top_n)

_validate_comparison_node(st) ==
  LET comparison == Get(st, "comparison", EmptyDict)
      top_bids == Get(comparison, "top", <<>>)
  IN "_comparison_valid" :> (Len(top_bids) > 0)

\* ------------------------------------------------------------------------
\* tools.py: the enrichment tools.  tool.invoke(input) validates the input
\* against the signature (a scope that is not a str is a validation error,
\* not a ToolException) and then runs the body.
\* ------------------------------------------------------------------------
medium == << "m", "e", "d", "i", "u", "m" >>
high == << "h", "i", "g", "h" >>
low == << "l", "o", "w" >>

market_benchmarks ==
  excavation :> [market_suppliers |-> 47, current_trend |-> "stable"]
  @@ roofing :> [market_suppliers |-> 63, current_trend |-> "increasing"]
  @@ concrete :> [market_suppliers |-> 52, current_trend |-> "stable"]
  @@ general :> [market_suppliers |-> 100, current_trend |-> "unknown"]

\* sum(estimate.values()) of scope_estimates
scope_estimates ==
  excavation :> 10000 @@ roofing :> 24000 @@ concrete :> 16000 @@ general :> 20000

\* complexity_multipliers, in tenths
complexity_multipliers == low :> 8 @@ medium :> 10 @@ high :> 15

\* "ok", "invalid" (the input fails validation: an Exception that is not a
\* ToolException) or "tool_exception"
fetch_market_data_outcome(input) ==
  IF "scope" \notin DOMAIN input \/ ~IsStr(input["scope"]) THEN "invalid"
  ELSE IF input["scope"] = <<>> THEN "tool_exception"
  ELSE "ok"

fetch_market_data(input) ==
  LET scope == input["scope"]
      data == Get(market_benchmarks, Lower(scope), market_benchmarks[general])
  IN [scope |-> scope, timestamp |-> "2025-12-06",
      market_suppliers |-> data.market_suppliers,
      current_trend |-> data.current_trend]

estimate_project_cost_outcome(input) ==
  IF "scope" \notin DOMAIN input \/ ~IsStr(input["scope"]) THEN "invalid"
  ELSE IF ~IsStr(Get(input, "complexity", medium)) THEN "invalid"
  ELSE IF input["scope"] = <<>> THEN "tool_exception"
  ELSE IF Lower(Get(input, "complexity", medium)) \notin { low, medium, high }
    THEN "tool_exception"
  ELSE "ok"

estimate_project_cost(input) ==
  LET scope == input["scope"]
      complexity == Get(input, "complexity", medium)
      multiplier == Get(complexity_multipliers, Lower(complexity), 10)
      estimate == Get(scope_estimates, Lower(scope), scope_estimates[general])
  IN [scope |-> scope, complexity |-> complexity,
      estimated_total |-> (estimate * multiplier) \div 10,
      confidence |-> IF complexity # high THEN "high" ELSE "medium"]

\* ------------------------------------------------------------------------
\* _use_tools_node
\* ------------------------------------------------------------------------
UseToolsMarketCall(scope) ==
  LET outcome == fetch_market_data_outcome("scope" :> scope)
      base == [tool |-> "fetch_market_data", params |-> ("scope" :> scope)]
  IN IF outcome = "ok" THEN base @@ [status |-> "success"]
     ELSE IF outcome = "tool_exception"
       THEN base @@ [status |-> "failed", error |-> "Scope must be a non-empty string"]
     ELSE base @@ [status |-> "error", error |-> "Unexpected error: validation"]

\* "roofing" in scope.lower() raises AttributeError when scope is not a str
UseToolsComplexity(scope) ==
  IF Contains(Lower(scope), roofing) THEN high ELSE medium

UseToolsCostCall(scope) ==
  IF ~IsStr(scope)
    THEN [tool |-> "estimate_project_cost", params |-> ("scope" :> scope),
          status |-> "error", error |-> "Unexpected error: no attribute lower"]
  ELSE
    LET complexity == UseToolsComplexity(scope)
        outcome == estimate_project_cost_outcome(
                     "scope" :> scope @@ "complexity" :> complexity)
    IN IF outcome = "ok"
         THEN [tool |-> "estimate_project_cost",
               params |-> ("scope" :> scope @@ "complexity" :> complexity),
               status |-> "success"]
       ELSE IF outcome = "tool_exception"
         THEN [tool |-> "estimate_project_cost", params |-> ("scope" :> scope),
               status |-> "failed", error |-> "Scope must be a non-empty string"]
       ELSE [tool |-> "estimate_project_cost", params |-> ("scope" :> scope),
             status |-> "error", error |-> "Unexpected error: validation"]

\* a node that gives up the cost estimate when the market data failed
_use_tools_node_stops_at_failure(st) ==
  LET scope == Get(st, "scope", general)
      market == UseToolsMarketCall(scope)
      cost == UseToolsCostCall(scope)
  IN IF market.status # "success"
       THEN "tool_calls" :> << market >> @@ "tool_results" :> EmptyDict
     ELSE "tool_calls" :> << market, cost >>
          @@ "tool_results" :>
               (("market_data" :> fetch_market_data("scope" :> scope))
                @@ (IF cost.status = "success"
                      THEN "cost_estimate" :> estimate_project_cost(cost.params)
                    ELSE EmptyDict))

_use_tools_node(st) ==
  LET scope == Get(st, "scope", general)
      market == UseToolsMarketCall(scope)
      cost == UseToolsCostCall(scope)
      market_result ==
        IF market.status = "success"
          THEN "market_data" :> fetch_market_data("scope" :> scope)
        ELSE EmptyDict
      cost_result ==
        IF cost.status = "success"
          THEN "cost_estimate" :> estimate_project_cost(cost.params)
        ELSE EmptyDict
  IN "tool_calls" :> << market, cost >>
     @@ "tool_results" :> (market_result @@ cost_result)

\* ------------------------------------------------------------------------
\* _execute_llm_tool_calls and _llm_with_tools_node
\* ------------------------------------------------------------------------
AVAILABLE_TOOLS == { "fetch_market_data", "estimate_project_cost" }

\* a or b on values that are None when missing
NameOf(tool_call) ==
  IF Get(tool_call, "tool", "None") # "None" THEN tool_call["tool"]
  ELSE Get(tool_call, "name", "None")

InputOf(tool_call) ==
  IF Get(tool_call, "tool_input", EmptyDict) # EmptyDict THEN tool_call["tool_input"]
  ELSE Get(tool_call, "input", EmptyDict)

IdOf(tool_call) == Get(tool_call, "id", NameOf(tool_call))

ToolOutcome(tool_name, input) ==
  IF tool_name = "fetch_market_data" THEN fetch_market_data_outcome(input)
  ELSE estimate_project_cost_outcome(input)

ToolResult(tool_name, input) ==
  IF tool_name \notin AVAILABLE_TOOLS THEN [error |-> "Tool not found"]
  ELSE IF ToolOutcome(tool_name, input) = "tool_exception"
    THEN [error |-> "ToolException"]
  ELSE IF ToolOutcome(tool_name, input) = "invalid"
    THEN [error |-> "Unexpected error"]
  ELSE IF tool_name = "fetch_market_data" THEN fetch_market_data(input)
  ELSE estimate_project_cost(input)

\* a loop that ends at the first call of an unknown tool, after recording it
RECURSIVE _execute_llm_tool_calls_stops_at_unknown(_, _)
_execute_llm_tool_calls_stops_at_unknown(tool_calls, tool_results) ==
  IF tool_calls = <<>> THEN tool_results
  ELSE LET tool_call == Head(tool_calls)
           written == (IdOf(tool_call) :> ToolResult(NameOf(tool_call), InputOf(tool_call)))
                      @@ tool_results
       IN IF NameOf(tool_call) \notin AVAILABLE_TOOLS THEN written
          ELSE _execute_llm_tool_calls_stops_at_unknown(Tail(tool_calls), written)

\* a mapping in which an identifier keeps its first result
RECURSIVE _execute_llm_tool_calls_keeps_first(_, _)
_execute_llm_tool_calls_keeps_first(tool_calls, tool_results) ==
  IF tool_calls = <<>> THEN tool_results
  ELSE LET tool_call == Head(tool_calls)
           written == tool_results
                      @@ (IdOf(tool_call) :> ToolResult(NameOf(tool_call), InputOf(tool_call)))
       IN _execute_llm_tool_calls_keeps_first(Tail(tool_calls), written)

\* tool_results[tool_id] = ..., a later write replaces an earlier one
RECURSIVE _execute_llm_tool_calls(_, _)
_execute_llm_tool_calls(tool_calls, tool_results) ==
  IF tool_calls = <<>> THEN tool_results
  ELSE LET tool_call == Head(tool_calls)
           written == (IdOf(tool_call) :> ToolResult(NameOf(tool_call), InputOf(tool_call)))
                      @@ tool_results
       IN _execute_llm_tool_calls(Tail(tool_calls), written)

max_iterations == 3

\* a loop without the bound on its iterations
RECURSIVE LlmToolLoop_unbounded(_, _, _, _)
LlmToolLoop_unbounded(replies, iteration, llm_tool_calls, llm_tool_results) ==
  IF iteration > Len(replies)
    THEN [calls |-> llm_tool_calls, results |-> llm_tool_results, invoked |-> iteration - 1]
  ELSE IF replies[iteration].kind \in { "raise", "final" }
    THEN [calls |-> llm_tool_calls, results |-> llm_tool_results, invoked |-> iteration]
  ELSE LlmToolLoop_unbounded(replies, iteration + 1,
                   llm_tool_calls \o replies[iteration].tool_calls,
                   _execute_llm_tool_calls(replies[iteration].tool_calls, llm_tool_results))

\* the while loop: replies[iteration] is what llm_with_tools.invoke answers
RECURSIVE LlmToolLoop(_, _, _, _)
LlmToolLoop(replies, iteration, llm_tool_calls, llm_tool_results) ==
  IF iteration > max_iterations \/ iteration > Len(replies)
    THEN [calls |-> llm_tool_calls, results |-> llm_tool_results, invoked |-> iteration - 1]
  ELSE IF replies[iteration].kind \in { "raise", "final" }
    THEN [calls |-> llm_tool_calls, results |-> llm_tool_results, invoked |-> iteration]
  ELSE LlmToolLoop(replies, iteration + 1,
                   llm_tool_calls \o replies[iteration].tool_calls,
                   _execute_llm_tool_calls(replies[iteration].tool_calls, llm_tool_results))

_llm_with_tools_node(st, replies) ==
  IF ~self.llm
    THEN "_llm_tool_calls" :> <<>> @@ "_llm_tool_results" :> EmptyDict
  ELSE LET out == LlmToolLoop(replies, 1, <<>>, EmptyDict)
       IN "_llm_tool_calls" :> out.calls @@ "_llm_tool_results" :> out.results

\* what the backend with tools bound can answer
LlmToolCallLists ==
  { << "tool" :> "fetch_market_data" @@ "tool_input" :> ("scope" :> roofing)
         @@ "id" :> "call_1",
       "name" :> "estimate_project_cost" @@ "input" :> ("scope" :> roofing),
       "tool" :> "unknown_tool" @@ "id" :> "call_2" >> }

LlmToolReplies ==
  { [kind |-> "raise"], [kind |-> "final"] }
  \cup { [kind |-> "calls", tool_calls |-> c] : c \in LlmToolCallLists }

\* the replies one execution of the loop consumes: tool calls up to the first
\* reply without them (or an exception), three replies at most
LlmToolReplySeqs ==
  { r \in SeqsUpTo(LlmToolReplies, max_iterations) :
      /\ Len(r) >= 1
      /\ \A i \in 1..(Len(r) - 1) : r[i].kind = "calls"
      /\ (Len(r) < max_iterations => r[Len(r)].kind # "calls") }

\* ------------------------------------------------------------------------
\* _format_node.  A recommendation is the sequence of its lines; the empty
\* text is the empty sequence.
\* ------------------------------------------------------------------------
_format_default(top_bids, insights) ==
  << [line |-> "Recommended", n |-> Len(top_bids)] >>
  \o [i \in 1..Len(top_bids) |->
        [line |-> "bid", subcontractor |-> top_bids[i].subcontractor,
         price |-> top_bids[i].price, lead_time_days |-> top_bids[i].lead_time_days]]

_format_with_llm(reply) ==
  IF reply = "raise" THEN <<>> ELSE LlmText

ToolInsights(tool_results) ==
  IF tool_results = NoneDict \/ tool_results = EmptyDict THEN <<>>
  ELSE (IF "market_data" \in DOMAIN tool_results
          THEN << [line |-> "Market Context",
                   market_suppliers |-> tool_results["market_data"].market_suppliers,
                   current_trend |-> tool_results["market_data"].current_trend] >>
        ELSE <<>>)
       \o (IF "cost_estimate" \in DOMAIN tool_results
             THEN << [line |-> "Estimated Budget",
                      estimated_total |-> tool_results["cost_estimate"].estimated_total,
                      confidence |-> tool_results["cost_estimate"].confidence] >>
           ELSE <<>>)

_format_node(st, reply) ==
  LET comparison == Get(st, "comparison", EmptyDict)
      top == Get(comparison, "top", <<>>)
      tool_insights == ToolInsights(Get(st, "tool_results", EmptyDict))
  IN "recommendation" :>
       (IF self.llm THEN _format_with_llm(reply)
        ELSE _format_default(top, tool_insights))

\* ------------------------------------------------------------------------
\* build_graph: the nodes and the edges
\* ------------------------------------------------------------------------
Nodes ==
  { "parse", "validate_parse", "clarify", "fetch", "use_tools", "llm_with_tools",
    "refetch", "compare", "validate_comparison", "format" }

\* the edges with clarify sent back to validate_parse
EdgeFrom_revalidate(n, st) ==
  CASE n = "START" -> "parse"
    [] n = "parse" -> "validate_parse"
    [] n = "validate_parse" -> _router_after_validation(st)
    [] n = "clarify" -> "validate_parse"
    [] n = "fetch" -> "use_tools"
    [] n = "use_tools" -> "llm_with_tools"
    [] n = "llm_with_tools" -> _router_after_fetch(st)
    [] n = "refetch" -> "compare"
    [] n = "compare" -> "validate_comparison"
    [] n = "validate_comparison" -> "format"
    [] n = "format" -> "END"

\* the edges with the refetch placed after compare
EdgeFrom_refetch_after_compare(n, st) ==
  CASE n = "START" -> "parse"
    [] n = "parse" -> "validate_parse"
    [] n = "validate_parse" -> _router_after_validation(st)
    [] n = "clarify" -> "fetch"
    [] n = "fetch" -> "use_tools"
    [] n = "use_tools" -> "llm_with_tools"
    [] n = "llm_with_tools" -> "compare"
    [] n = "compare" ->
         IF "refetch" \in { path[i] : i \in 1..Len(path) } THEN "validate_comparison"
         ELSE "refetch"
    [] n = "refetch" -> "compare"
    [] n = "validate_comparison" -> "format"
    [] n = "format" -> "END"

\* the node that follows node n once its return has been merged into st
EdgeFrom(n, st) ==
  CASE n = "START" -> "parse"
    [] n = "parse" -> "validate_parse"
    [] n = "validate_parse" -> _router_after_validation(st)
    [] n = "clarify" -> "fetch"
    [] n = "fetch" -> "use_tools"
    [] n = "use_tools" -> "llm_with_tools"
    [] n = "llm_with_tools" -> _router_after_fetch(st)
    [] n = "refetch" -> "compare"
    [] n = "compare" -> "validate_comparison"
    [] n = "validate_comparison" -> "format"
    [] n = "format" -> "END"

\* what the node's collaborator may answer when node n runs
Answers(n) ==
  CASE n = "parse" -> IF self.llm THEN LlmParseReplies ELSE { [kind |-> "raise"] }
    [] n \in { "fetch", "refetch" } -> BidLists
    [] n = "llm_with_tools" ->
         IF self.llm THEN LlmToolReplySeqs ELSE { << >> }
    [] n = "format" -> IF self.llm THEN LlmFormatReplies ELSE { "raise" }
    [] OTHER -> { 0 }

\* the dict node n returns on state st when its collaborator answers a
NodeReturn(n, st, a) ==
  CASE n = "parse" -> _parse_node(st, a)
    [] n = "validate_parse" -> _validate_parse_node(st)
    [] n = "clarify" -> _clarify_node(st)
    [] n = "fetch" -> _fetch_node(st, a)
    [] n = "use_tools" -> _use_tools_node(st)
    [] n = "llm_with_tools" -> _llm_with_tools_node(st, a)
    [] n = "refetch" -> _refetch_node(st, a)
    [] n = "compare" -> _compare_node(st)
    [] n = "validate_comparison" -> _validate_comparison_node(st)
    [] n = "format" -> _format_node(st, a)

\* node n lets an exception escape
NodeRaises(n, st, a) ==
  CASE n = "parse" -> _parse_node_raises(st, a)
    [] n = "fetch" -> _fetch_node_raises(st)
    [] n = "refetch" -> _refetch_node_raises(st)
    [] OTHER -> FALSE

\* ------------------------------------------------------------------------
\* run
\* ------------------------------------------------------------------------
Pieces ==
  { << "P", "-", "1" >>, << "p" >>, << "-" >>, << "1" >>, roofing }

RECURSIVE Concat(_)
Concat(ps) == IF ps = <<>> THEN <<>> ELSE Head(ps) \o Concat(Tail(ps))

Prompts == { Concat(ps) : ps \in SeqsUpTo(Pieces, MaxPieces) }

Configs ==
  [top_n : 1..MaxTopN, min_bids : 0..MaxMinBids, max_retries : 0..MaxRetries,
   llm : BOOLEAN]

initial_state(prompt) ==
  "prompt" :> prompt
  @@ "project_id" :> None
  @@ "scope" :> None
  @@ "bids" :> <<>>
  @@ "comparison" :> EmptyDict
  @@ "recommendation" :> <<>>
  @@ "tool_calls" :> None
  @@ "tool_results" :> NoneDict

\* the dict run() builds from the final state
Snapshot(final_state) ==
  "prompt" :> Get(final_state, "prompt", <<>>)
  @@ "project_id" :> Get(final_state, "project_id", None)
  @@ "scope" :> Get(final_state, "scope", None)
  @@ "bids" :> Get(final_state, "bids", <<>>)
  @@ "comparison" :> Get(final_state, "comparison", EmptyDict)
  @@ "recommendation" :> Get(final_state, "recommendation", <<>>)
  @@ "tool_calls" :> Get(final_state, "tool_calls", None)
  @@ "tool_results" :> Get(final_state, "tool_results", NoneDict)
  @@ "llm_tool_calls" :> Get(final_state, "_llm_tool_calls", None)
  @@ "llm_tool_results" :> Get(final_state, "_llm_tool_results", NoneDict)

Init ==
  /\ self \in Configs
  /\ pc = "START"
  /\ \E prompt \in Prompts : state = initial_state(prompt)
  /\ ret = EmptyDict
  /\ path = << >>
  /\ src_log = << >>
  /\ returned = EmptyDict
  /\ direct = FALSE
  /\ CacheUnused
  /\ PoolUnused

\* compiled_graph.invoke(initial_state) enters the graph
Invoke ==
  /\ ~direct
  /\ pc = "START"
  /\ pc' = EdgeFrom("START", state)
  /\ UNCHANGED << self, state, ret, path, src_log, returned, direct >>
  /\ UNCHANGED << cachevars, poolvars >>

\* one step of the engine: run the node, merge its return, follow the edge
Record(log, e) == IF Len(log) < MaxPath THEN Append(log, e) ELSE log

Step ==
  /\ ~direct
  /\ pc \in Nodes
  /\ \E a \in Answers(pc) :
       /\ path' = Record(path, pc)
       /\ src_log' = IF pc \in { "fetch", "refetch" }
                       THEN Record(src_log, IF NodeRaises(pc, state, a) THEN -1 ELSE Len(a))
                     ELSE src_log
       /\ IF NodeRaises(pc, state, a)
            THEN /\ pc' = "raised"
                 /\ UNCHANGED << state, ret >>
          ELSE LET returns == NodeReturn(pc, state, a)
                   merged == Merge(state, returns)
               IN /\ ret' = returns
                  /\ state' = merged
                  /\ pc' = EdgeFrom(pc, merged)
  /\ UNCHANGED << self, returned, direct >>
  /\ UNCHANGED << cachevars, poolvars >>

\* run() returns its snapshot of the final state
Return ==
  /\ ~direct
  /\ pc = "END"
  /\ pc' = "returned"
  /\ returned' = Snapshot(state)
  /\ UNCHANGED << self, state, ret, path, src_log, direct >>
  /\ UNCHANGED << cachevars, poolvars >>

Next == Invoke \/ Step \/ Return

Spec == Init /\ [][Next]_vars

\* ------------------------------------------------------------------------
\* langgraph_agent.py: the basic orchestrator, START -> parse -> fetch ->
\* compare -> format -> END.  Its nodes are named basic_<node> here.
\* ------------------------------------------------------------------------
\* what the backend can do on the basic orchestrator's extraction request:
\* "raise" is a reply that is not JSON (json.JSONDecodeError) or has no
\* content (AttributeError); "backend_error" is any other exception of
\* llm.invoke, such as a transport error
LangGraphAgent_LlmParseReplies == LlmParseReplies \cup { [kind |-> "backend_error"] }

\* only json.JSONDecodeError and AttributeError are caught
LangGraphAgent_parse_with_llm(prompt, reply) ==
  IF reply.kind = "raise" THEN _parse_with_regex(prompt)
  ELSE reply

\* a backend_error leaves _parse_with_llm; parsed.get(...) on a reply that
\* is not a JSON object raises AttributeError in _parse_node
LangGraphAgent_parse_node_raises(reply) ==
  self.llm /\ reply.kind \in { "backend_error", "nonobject" }

LangGraphAgent_parse_node(st, reply) ==
  LET prompt == Get(st, "prompt", <<>>)
      parsed == IF self.llm THEN LangGraphAgent_parse_with_llm(prompt, reply)
                ELSE _parse_with_regex(prompt)
  IN "project_id" :> parsed.project_id @@ "scope" :> parsed.scope

LangGraphAgent_format_with_default(top_bids) ==
  << [line |-> "Recommendation", n |-> Len(top_bids)] >>
  \o [i \in 1..Len(top_bids) |->
        [line |-> "bid", subcontractor |-> top_bids[i].subcontractor,
         price |-> top_bids[i].price, lead_time_days |-> top_bids[i].lead_time_days]]

\* _format_with_llm returns None when the backend raises; a falsy text is
\* replaced by the default format
LangGraphAgent_format_node(st, reply) ==
  LET comparison == Get(st, "comparison", EmptyDict)
      top == Get(comparison, "top", <<>>)
  IN "recommendation" :>
       (IF self.llm /\ reply # "raise" THEN LlmText
        ELSE LangGraphAgent_format_with_default(top))

LangGraphAgent_Nodes == { "basic_parse", "basic_fetch", "basic_compare", "basic_format" }

LangGraphAgent_EdgeFrom(n) ==
  CASE n = "basic_START" -> "basic_parse"
    [] n = "basic_parse" -> "basic_fetch"
    [] n = "basic_fetch" -> "basic_compare"
    [] n = "basic_compare" -> "basic_format"
    [] n = "basic_format" -> "basic_END"

LangGraphAgent_Answers(n) ==
  CASE n = "basic_parse" ->
         IF self.llm THEN LangGraphAgent_LlmParseReplies ELSE { [kind |-> "raise"] }
    [] n = "basic_fetch" -> BidLists
    [] n = "basic_format" -> IF self.llm THEN LlmFormatReplies ELSE { "raise" }
    [] OTHER -> { 0 }

LangGraphAgent_NodeReturn(n, st, a) ==
  CASE n = "basic_parse" -> LangGraphAgent_parse_node(st, a)
    [] n = "basic_fetch" -> "bids" :> a
    [] n = "basic_compare" ->
         "comparison" :> compare_bids(Get(st, "bids", <<>>), self.top_n)
    [] n = "basic_format" -> LangGraphAgent_format_node(st, a)

LangGraphAgent_NodeRaises(n, st, a) ==
  CASE n = "basic_parse" -> LangGraphAgent_parse_node_raises(a)
    [] n = "basic_fetch" -> fetch_subcontractor_bids_raises(Get(st, "project_id", None))
    [] OTHER -> FALSE

LangGraphAgent_initial_state(prompt) ==
  "prompt" :> prompt
  @@ "project_id" :> None
  @@ "scope" :> None
  @@ "bids" :> <<>>
  @@ "comparison" :> EmptyDict
  @@ "recommendation" :> <<>>

LangGraphAgent_Init ==
  /\ self \in { c \in Configs : c.min_bids = 0 /\ c.max_retries = 0 }
  /\ pc = "basic_START"
  /\ \E prompt \in Prompts : state = LangGraphAgent_initial_state(prompt)
  /\ ret = EmptyDict
  /\ path = << >>
  /\ src_log = << >>
  /\ returned = EmptyDict
  /\ direct = FALSE
  /\ CacheUnused
  /\ PoolUnused

LangGraphAgent_Invoke ==
  /\ pc = "basic_START"
  /\ pc' = LangGraphAgent_EdgeFrom("basic_START")
  /\ UNCHANGED << self, state, ret, path, src_log, returned, direct >>
  /\ UNCHANGED << cachevars, poolvars >>

LangGraphAgent_Step ==
  /\ pc \in LangGraphAgent_Nodes
  /\ \E a \in LangGraphAgent_Answers(pc) :
       /\ path' = Record(path, pc)
       /\ src_log' = IF pc = "basic_fetch"
                       THEN Record(src_log,
                                   IF LangGraphAgent_NodeRaises(pc, state, a)
                                     THEN -1 ELSE Len(a))
                     ELSE src_log
       /\ IF LangGraphAgent_NodeRaises(pc, state, a)
            THEN /\ pc' = "raised"
                 /\ UNCHANGED << state, ret >>
          ELSE LET returns == LangGraphAgent_NodeReturn(pc, state, a)
               IN /\ ret' = returns
                  /\ state' = Merge(state, returns)
                  /\ pc' = LangGraphAgent_EdgeFrom(pc)
  /\ UNCHANGED << self, returned, direct >>
  /\ UNCHANGED << cachevars, poolvars >>

\* run() returns the six fields of the final state
LangGraphAgent_Return ==
  /\ pc = "basic_END"
  /\ pc' = "returned"
  /\ returned' = state
  /\ UNCHANGED << self, state, ret, path, src_log, direct >>
  /\ UNCHANGED << cachevars, poolvars >>

LangGraphAgent_Next ==
  LangGraphAgent_Invoke \/ LangGraphAgent_Step \/ LangGraphAgent_Return

\* runs of either orchestrator
RunSpec ==
  (Init \/ LangGraphAgent_Init) /\ [][Next \/ LangGraphAgent_Next]_vars

\* ------------------------------------------------------------------------
\* The demo request of run_live_demo.py, handled without a backend by
\* either orchestrator constructed with top_n=2
\* ------------------------------------------------------------------------
ScenarioPrompt ==
  << "G", "e", "t", " ", "s", "u", "b", "c", "o", "n", "t",
     "r", "a", "c", "t", "o", "r", " ", "b", "i", "d", "s",
     " ", "f", "o", "r", " ", "f", "o", "u", "n", "d", "a",
     "t", "i", "o", "n", " ", "w", "o", "r", "k", "s", " ",
     "o", "n", " ", "p", "r", "o", "j", "e", "c", "t", " ",
     "P", "-", "2", "0", "2", "5", "-", "0", "0", "1" >>

ScenarioInit ==
  /\ \E c \in Configs : ~c.llm /\ self = [c EXCEPT !.top_n = 2]
  /\ \/ pc = "START" /\ state = initial_state(ScenarioPrompt)
     \/ /\ pc = "basic_START" /\ self.min_bids = 0 /\ self.max_retries = 0
        /\ state = LangGraphAgent_initial_state(ScenarioPrompt)
  /\ ret = EmptyDict
  /\ path = << >>
  /\ src_log = << >>
  /\ returned = EmptyDict
  /\ direct = FALSE
  /\ CacheUnused
  /\ PoolUnused

ScenarioSpec == ScenarioInit /\ [][Next \/ LangGraphAgent_Next]_vars

\* ------------------------------------------------------------------------
\* The extractor and the ranker called on their own
\* ------------------------------------------------------------------------
ExtractPieces ==
  { << "P", "-", "1", "2" >>, << "A", "1" >>, << "x", "9" >>, << " " >>,
    << "o", "n" >> }

ExtractPrompts == { Concat(ps) : ps \in SeqsUpTo(ExtractPieces, MaxExtractPieces) }

FunctionInit ==
  /\ \E n \in -1..MaxRankTopN :
       self = [top_n |-> n, min_bids |-> 0, max_retries |-> 0, llm |-> FALSE]
  /\ \/ /\ pc = "_parse_with_regex"
        /\ \E prompt \in ExtractPrompts : state = ("prompt" :> prompt)
        /\ self.top_n = 1
     \/ /\ pc = "compare_bids"
        /\ \E bids \in SeqsUpTo(Bid, MaxRankBids) : state = ("bids" :> bids)
  /\ ret = EmptyDict
  /\ path = << >>
  /\ src_log = << >>
  /\ returned = EmptyDict
  /\ direct = TRUE
  /\ CacheUnused
  /\ PoolUnused

Call_parse_with_regex ==
  /\ pc = "_parse_with_regex"
  /\ pc' = "called"
  /\ path' = << pc >>
  /\ LET result == _parse_with_regex(state["prompt"])
     IN ret' = ("project_id" :> result.project_id @@ "scope" :> result.scope)
  /\ UNCHANGED << self, state, src_log, returned, direct >>
  /\ UNCHANGED << cachevars, poolvars >>

Call_compare_bids ==
  /\ pc = "compare_bids"
  /\ pc' = "called"
  /\ path' = << pc >>
  /\ ret' = compare_bids(state["bids"], self.top_n)
  /\ UNCHANGED << self, state, src_log, returned, direct >>
  /\ UNCHANGED << cachevars, poolvars >>

FunctionSpec == FunctionInit /\ [][Call_parse_with_regex \/ Call_compare_bids]_vars

\* ------------------------------------------------------------------------
\* A node method called directly on a hand-built state dict
\* ------------------------------------------------------------------------
ControlDicts ==
  { EmptyDict }
  \cup { "_fetch_attempts" :> n : n \in 0..(MaxRetries + 1) }
  \cup { "_needs_refetch" :> v : v \in BOOLEAN }
  \cup { "_validation_passed" :> v @@ "_parse_confidence" :> c :
           v \in BOOLEAN, c \in { 3, 6, 9 } }

CallInputs ==
  { "project_id" :> i @@ "scope" :> sc @@ "bids" :> b @@ ctl
    @@ initial_state(<< "P", "-", "1" >>) :
      i \in { None, << "P", "-", "1" >> },
      sc \in { <<>>, roofing },
      b \in { [n \in 1..m |-> CHOOSE x \in SourceBids :
                                  x.price = IF n <= 10 THEN 2 ELSE 1] :
               m \in { 0, 2, 9, 11 } },
      ctl \in ControlDicts }

InitCall ==
  /\ self \in Configs
  /\ pc \in Nodes
  /\ state \in CallInputs
  /\ ret = EmptyDict
  /\ path = << >>
  /\ src_log = << >>
  /\ returned = EmptyDict
  /\ direct = TRUE
  /\ CacheUnused
  /\ PoolUnused

\* agent._node(state): the method returns its dict; nothing is merged
CallNode ==
  /\ direct
  /\ pc \in Nodes
  /\ \E a \in Answers(pc) :
       /\ path' = Record(path, pc)
       /\ src_log' = IF pc \in { "fetch", "refetch" }
                       THEN Record(src_log, IF NodeRaises(pc, state, a) THEN -1 ELSE Len(a))
                     ELSE src_log
       /\ IF NodeRaises(pc, state, a)
            THEN pc' = "raised" /\ UNCHANGED ret
          ELSE pc' = "called" /\ ret' = NodeReturn(pc, state, a)
  /\ UNCHANGED << self, state, returned, direct >>
  /\ UNCHANGED << cachevars, poolvars >>

NodeSpec == InitCall /\ [][CallNode]_vars

\* runs and direct calls together
AllSpec == (Init \/ InitCall) /\ [][Next \/ CallNode]_vars

\* ------------------------------------------------------------------------
\* _execute_llm_tool_calls called alone, as the unit tests do
\* ------------------------------------------------------------------------
MaxCallList == 3

\* tool calls as the backend writes them: with and without an id, of a
\* registered tool and of unknown ones
DirectToolCalls ==
  { "tool" :> "fetch_market_data" @@ "tool_input" :> ("scope" :> roofing)
      @@ "id" :> "call_1",
    "tool" :> "nonexistent_tool" @@ "tool_input" :> ("scope" :> roofing)
      @@ "id" :> "call_2",
    "tool" :> "nonexistent_tool" @@ "id" :> "call_1",
    "name" :> "unknown_tool",
    "tool" :> "fetch_market_data" @@ "tool_input" :> ("scope" :> roofing)
      @@ "id" :> "previous",
    "tool" :> "fetch_market_data" @@ "tool_input" :> ("scope" :> roofing),
    "name" :> "fetch_market_data" @@ "input" :> ("scope" :> excavation) }

\* the results mapping handed in
DirectToolResults == { EmptyDict, "previous" :> [result |-> "earlier"] }

ToolCallInit ==
  /\ CacheUnused
  /\ PoolUnused
  /\ self = [top_n |-> 1, min_bids |-> 0, max_retries |-> 0, llm |-> FALSE]
  /\ pc = "_execute_llm_tool_calls"
  /\ \E tool_calls \in SeqsUpTo(DirectToolCalls, MaxCallList),
        tool_results \in DirectToolResults :
       state = [tool_calls |-> tool_calls, tool_results |-> tool_results]
  /\ ret = EmptyDict
  /\ path = << >>
  /\ src_log = << >>
  /\ returned = EmptyDict
  /\ direct = TRUE

\* the tools the loop invokes (matching_tool.invoke), in order: one for
\* every call that names a registered tool
Invocations(tool_calls) ==
  LET registered == SelectSeq(tool_calls, LAMBDA c : NameOf(c) \in AVAILABLE_TOOLS)
  IN [i \in 1..Len(registered) |-> NameOf(registered[i])]

\* path is the method followed by the tools it invoked
Call_execute_llm_tool_calls ==
  /\ pc = "_execute_llm_tool_calls"
  /\ ret' = _execute_llm_tool_calls(state.tool_calls, state.tool_results)
  /\ pc' = "called"
  /\ path' = << "_execute_llm_tool_calls" >> \o Invocations(state.tool_calls)
  /\ UNCHANGED << self, state, src_log, returned, direct >>
  /\ UNCHANGED << cachevars, poolvars >>

ToolCallSpec == ToolCallInit /\ [][Call_execute_llm_tool_calls]_vars

\* ------------------------------------------------------------------------
\* _llm_with_tools_node called alone with a backend that answers whatever
\* it is asked, as long as it is asked
\* ------------------------------------------------------------------------
\* the replies the backend has ready, more than the loop may consume
MaxReplies == 4

ToolLoopInit ==
  /\ CacheUnused
  /\ PoolUnused
  /\ \E llm \in BOOLEAN :
       self = [top_n |-> 1, min_bids |-> 0, max_retries |-> 0, llm |-> llm]
  /\ pc = "_llm_with_tools_node"
  /\ \E replies \in [1..MaxReplies -> LlmToolReplies] :
       state = [replies |-> replies]
  /\ ret = EmptyDict
  /\ path = << >>
  /\ src_log = << >>
  /\ returned = EmptyDict
  /\ direct = TRUE

\* path records the call of the node and every llm_with_tools.invoke in it
Call_llm_with_tools_node ==
  /\ pc = "_llm_with_tools_node"
  /\ ret' = _llm_with_tools_node(EmptyDict, state.replies)
  /\ pc' = "called"
  /\ path' = << "_llm_with_tools_node" >>
               \o [i \in 1..(IF self.llm
                               THEN LlmToolLoop(state.replies, 1, <<>>, EmptyDict).invoked
                             ELSE 0) |-> "llm_with_tools.invoke"]
  /\ UNCHANGED << self, state, src_log, returned, direct >>
  /\ UNCHANGED << cachevars, poolvars >>

ToolLoopSpec == ToolLoopInit /\ [][Call_llm_with_tools_node]_vars

\* ------------------------------------------------------------------------
\* old/src/construction_assistant/tool_cache.py: ToolCache
\* ------------------------------------------------------------------------
MaxTtl == 2
MaxNow == 3
\* calls made on one cache
MaxCacheCalls == 3

ToolNames == { "fetch_market_data", "estimate_project_cost" }

\* the tool whose results the cache under test holds
CachedToolNames == { "fetch_market_data" }

\* tool inputs: a dict with a str value, one with a tuple and one with a
\* list of the same items
ToolInputs ==
  { "scope" :> [type |-> "str", items |-> << "roofing" >>],
    "ids" :> [type |-> "tuple", items |-> << 1, 2 >>],
    "ids" :> [type |-> "list", items |-> << 1, 2 >>] }

Payloads == { "P1", "P2" }

\* json.dumps(tool_input, sort_keys=True, default=str): with the keys
\* sorted the text is a function of the mapping; a tuple and a list are
\* both written as a JSON array
Dumps(tool_input) ==
  [k \in DOMAIN tool_input |->
     [json |-> IF tool_input[k].type = "str" THEN "string" ELSE "array",
      items |-> tool_input[k].items]]

\* f"{tool_name}_{input_hash}": the digest is a function of the serialized
\* text, which stands for it here
_generate_key(tool_name, tool_input) == << tool_name, Dumps(tool_input) >>

Remove(d, k) == [x \in DOMAIN d \ { k } |-> d[x]]

\* a _load_from_file without its except clause: the exception of a file
\* that cannot be parsed leaves it
_load_from_file_uncaught(key) ==
  IF ~cache.cache_dir \/ key \notin DOMAIN files
    THEN [result |-> "None", files |-> files, raised |-> FALSE]
  ELSE IF files[key].corrupt
    THEN [result |-> "None", files |-> files, raised |-> TRUE]
  ELSE IF now < files[key].expires_at
    THEN [result |-> files[key].result, files |-> files, raised |-> FALSE]
  ELSE [result |-> "None",
        files |-> IF dir_mode = "writable" THEN Remove(files, key) ELSE files,
        raised |-> dir_mode # "writable"]

\* the result read from the key's file ("None" when there is none, or it
\* has expired and is removed), the files left, and whether an exception
\* leaves the function: json.load and the reading of "expires_at" raise on a
\* file that cannot be parsed, os.remove raises in a directory that cannot
\* be written, and the except clause logs both and returns None
_load_from_file(key) ==
  IF ~cache.cache_dir \/ key \notin DOMAIN files
    THEN [result |-> "None", files |-> files, raised |-> FALSE]
  ELSE IF files[key].corrupt
    THEN [result |-> "None", files |-> files, raised |-> FALSE]
  ELSE IF now < files[key].expires_at
    THEN [result |-> files[key].result, files |-> files, raised |-> FALSE]
  ELSE [result |-> "None",
        files |-> IF dir_mode = "writable" THEN Remove(files, key) ELSE files,
        raised |-> FALSE]

\* the files after writing the key's file; open(cache_file, "w") raises in
\* a directory that cannot be written, and the exception is logged
_save_to_file(key, result) ==
  IF cache.cache_dir /\ dir_mode = "writable"
    THEN (key :> [result |-> result, expires_at |-> now + cache.ttl,
                  corrupt |-> FALSE]) @@ files
  ELSE files

RunUnused ==
  /\ self = [top_n |-> 1, min_bids |-> 0, max_retries |-> 0, llm |-> FALSE]
  /\ pc = "cache"
  /\ state = EmptyDict
  /\ ret = EmptyDict
  /\ path = << >>
  /\ src_log = << >>
  /\ returned = EmptyDict
  /\ direct = TRUE

\* the states of the cache directory: it can be created and written, it
\* exists but cannot be written (nor its files removed), or os.makedirs fails
DirModes == { "writable", "readonly", "uncreatable" }

\* ToolCache(cache_dir, ttl_seconds): cache_dir is dropped when the
\* directory cannot be created
ToolCache(cache_dir, ttl_seconds) ==
  [memory_cache |-> << >>,
   cache_dir |-> cache_dir /\ dir_mode # "uncreatable",
   ttl |-> ttl_seconds]

CacheInit ==
  /\ RunUnused
  /\ PoolUnused
  /\ dir_mode = "writable"
  /\ \E dir \in BOOLEAN, ttl_seconds \in 1..MaxTtl :
       cache = ToolCache(dir, ttl_seconds)
  /\ files = << >>
  /\ now = 0
  /\ set_log = << >>
  /\ cache_ret = [op |-> "none", calls |-> 0]
  /\ threads = << >>

\* set: the memory_cache and the files after it
ToolCache_set(tool_name, tool_input, result) ==
  LET key == _generate_key(tool_name, tool_input)
      entry == [result |-> result, expires_at |-> now + cache.ttl]
  IN [memory_cache |-> (key :> entry) @@ cache.memory_cache,
      files |-> _save_to_file(key, result)]

\* a get that empties the memory_cache when it finds its entry expired
ToolCache_get_clears_on_expiry(tool_name, tool_input) ==
  LET key == _generate_key(tool_name, tool_input)
      memory_cache == cache.memory_cache
      hit == key \in DOMAIN memory_cache /\ now < memory_cache[key].expires_at
      expired == IF key \in DOMAIN memory_cache /\ ~hit
                   THEN << >> ELSE memory_cache
      loaded == _load_from_file(key)
  IN IF hit
       THEN [result |-> memory_cache[key].result,
             memory_cache |-> memory_cache, files |-> files]
     ELSE IF loaded.raised
       THEN [result |-> "raise", memory_cache |-> expired, files |-> loaded.files]
     ELSE IF loaded.result # "None"
       THEN [result |-> loaded.result,
             memory_cache |-> (key :> [result |-> loaded.result,
                                       expires_at |-> now + cache.ttl]) @@ expired,
             files |-> loaded.files]
     ELSE [result |-> "None", memory_cache |-> expired, files |-> loaded.files]

\* get: its result ("raise" when an exception leaves it), and the
\* memory_cache and the files after it
ToolCache_get(tool_name, tool_input) ==
  LET key == _generate_key(tool_name, tool_input)
      memory_cache == cache.memory_cache
      hit == key \in DOMAIN memory_cache /\ now < memory_cache[key].expires_at
      expired == IF key \in DOMAIN memory_cache /\ ~hit
                   THEN Remove(memory_cache, key) ELSE memory_cache
      loaded == _load_from_file(key)
  IN IF hit
       THEN [result |-> memory_cache[key].result,
             memory_cache |-> memory_cache, files |-> files]
     ELSE IF loaded.raised
       THEN [result |-> "raise", memory_cache |-> expired, files |-> loaded.files]
     ELSE IF loaded.result # "None"
       THEN [result |-> loaded.result,
             memory_cache |-> (key :> [result |-> loaded.result,
                                       expires_at |-> now + cache.ttl]) @@ expired,
             files |-> loaded.files]
     ELSE [result |-> "None", memory_cache |-> expired, files |-> loaded.files]

\* cache.set(tool_name, tool_input, result)
CacheSet ==
  \E tool_name \in CachedToolNames, tool_input \in ToolInputs, result \in Payloads :
    LET after == ToolCache_set(tool_name, tool_input, result)
    IN /\ cache_ret.calls < MaxCacheCalls
       /\ cache' = [cache EXCEPT !.memory_cache = after.memory_cache]
       /\ files' = after.files
       /\ set_log' = (<< tool_name, tool_input >> :> [result |-> result, at |-> now])
                       @@ set_log
       /\ cache_ret' = [op |-> "set", tool_name |-> tool_name,
                        tool_input |-> tool_input, result |-> result,
                        calls |-> cache_ret.calls + 1]
       /\ UNCHANGED << now, dir_mode, threads, runvars, poolvars >>

\* cache.get(tool_name, tool_input)
CacheGet ==
  \E tool_name \in CachedToolNames, tool_input \in ToolInputs :
    LET got == ToolCache_get(tool_name, tool_input)
    IN /\ cache_ret.calls < MaxCacheCalls
       /\ cache_ret' = [op |-> "get", tool_name |-> tool_name,
                        tool_input |-> tool_input, result |-> got.result,
                        calls |-> cache_ret.calls + 1]
       /\ cache' = [cache EXCEPT !.memory_cache = got.memory_cache]
       /\ files' = got.files
       /\ UNCHANGED << now, set_log, dir_mode, threads, runvars, poolvars >>

\* a second passes between two calls
CacheTick ==
  /\ now < MaxNow
  /\ now' = now + 1
  /\ cache_ret' = [op |-> "none", calls |-> cache_ret.calls]
  /\ UNCHANGED << cache, files, set_log, dir_mode, threads, runvars, poolvars >>

\* the process ends and a new ToolCache is built on the same directory with
\* the same ttl_seconds
CacheRestart ==
  /\ cache.memory_cache # << >>
  /\ cache' = ToolCache(cache.cache_dir, cache.ttl)
  /\ cache_ret' = [op |-> "none", calls |-> cache_ret.calls]
  /\ UNCHANGED << files, now, set_log, dir_mode, threads, runvars, poolvars >>

\* a cache file is damaged from outside: json.load or the reading of its
\* "expires_at" raises
CorruptFile ==
  \E key \in DOMAIN files :
    /\ ~files[key].corrupt
    /\ files' = [files EXCEPT ![key].corrupt = TRUE]
    /\ cache_ret' = [op |-> "none", calls |-> cache_ret.calls]
    /\ UNCHANGED << cache, now, set_log, dir_mode, threads, runvars, poolvars >>

\* a cache file is deleted from outside
RemoveFile ==
  \E key \in DOMAIN files :
    /\ files' = Remove(files, key)
    /\ cache_ret' = [op |-> "none", calls |-> cache_ret.calls]
    /\ UNCHANGED << cache, now, set_log, dir_mode, threads, runvars, poolvars >>

\* the cache directory stops being writable
DirReadonly ==
  /\ dir_mode = "writable"
  /\ cache.cache_dir
  /\ dir_mode' = "readonly"
  /\ cache_ret' = [op |-> "none", calls |-> cache_ret.calls]
  /\ UNCHANGED << cache, files, now, set_log, threads, runvars, poolvars >>

CacheSpec ==
  CacheInit /\ [][CacheSet \/ CacheGet \/ CacheTick \/ CacheRestart]_vars

\* the cache with a cache directory whose files are damaged or deleted from
\* outside, or that cannot be written or created
CacheFaultInit ==
  /\ RunUnused
  /\ PoolUnused
  /\ dir_mode \in DirModes
  /\ \E ttl_seconds \in 1..MaxTtl : cache = ToolCache(TRUE, ttl_seconds)
  /\ files = << >>
  /\ now = 0
  /\ set_log = << >>
  /\ cache_ret = [op |-> "none", calls |-> 0]
  /\ threads = << >>

CacheFaultSpec ==
  CacheFaultInit /\ [][CacheSet \/ CacheGet \/ CacheTick \/ CacheRestart
                  \/ CorruptFile \/ RemoveFile \/ DirReadonly]_vars

\* ------------------------------------------------------------------------
\* _generate_key called alone on two (tool, input) pairs
\* ------------------------------------------------------------------------
\* the values of an input: a str, and a tuple and lists of ints
KeyValues ==
  { [type |-> "str", items |-> << "roofing" >>],
    [type |-> "tuple", items |-> << 1, 2 >>],
    [type |-> "list", items |-> << 1, 2 >>],
    [type |-> "list", items |-> << 2, 1 >>] }

\* the input dicts with keys among "scope" and "ids"
KeyInputs ==
  UNION { [ks -> KeyValues] : ks \in SUBSET { "scope", "ids" } }

KeyInit ==
  /\ CacheUnused
  /\ PoolUnused
  /\ self = [top_n |-> 1, min_bids |-> 0, max_retries |-> 0, llm |-> FALSE]
  /\ pc = "_generate_key"
  /\ \E n1 \in ToolNames, n2 \in ToolNames, i1 \in KeyInputs, i2 \in KeyInputs :
       state = [a |-> [tool_name |-> n1, tool_input |-> i1],
                b |-> [tool_name |-> n2, tool_input |-> i2]]
  /\ ret = EmptyDict
  /\ path = << >>
  /\ src_log = << >>
  /\ returned = EmptyDict
  /\ direct = TRUE

Call_generate_key ==
  /\ pc = "_generate_key"
  /\ ret' = [a |-> _generate_key(state.a.tool_name, state.a.tool_input),
             b |-> _generate_key(state.b.tool_name, state.b.tool_input)]
  /\ pc' = "called"
  /\ path' = << "_generate_key" >>
  /\ UNCHANGED << self, state, src_log, returned, direct >>
  /\ UNCHANGED << cachevars, poolvars >>

KeySpec == KeyInit /\ [][Call_generate_key]_vars

\* ------------------------------------------------------------------------
\* cached_tool: a function wrapped by the decorator
\* ------------------------------------------------------------------------
\* neither a cache handed to cached_tool nor a global one
NoCache == [configured |-> FALSE]

\* the wrapped function: pure, its result depends on its argument only; for
\* one argument it returns None
WrappedResult(tool_input) ==
  IF "scope" \in DOMAIN tool_input THEN "P1"
  ELSE IF tool_input["ids"].type = "tuple" THEN "P2"
  ELSE "None"

WrapperInit ==
  /\ RunUnused
  /\ PoolUnused
  /\ dir_mode = "writable"
  /\ \/ cache = NoCache
     \/ \E dir \in BOOLEAN, ttl_seconds \in 1..MaxTtl :
          cache = ToolCache(dir, ttl_seconds)
  /\ files = << >>
  /\ now = 0
  /\ set_log = << >>
  /\ cache_ret = [op |-> "none", calls |-> 0]
  /\ threads = << >>

\* wrapper(tool_input): set_log records the last execution of the body for
\* each argument
WrappedCall ==
  \E tool_input \in ToolInputs :
    LET name == "fetch_market_data"
        result == WrappedResult(tool_input)
        executed_at == (<< name, tool_input >> :> [result |-> result, at |-> now])
                         @@ set_log
    IN /\ cache_ret.calls < MaxCacheCalls
       /\ IF cache = NoCache
            THEN \* return func(*args, **kwargs)
                 /\ cache_ret' = [op |-> "call", tool_name |-> name,
                                  tool_input |-> tool_input, result |-> result,
                                  executed |-> TRUE, calls |-> cache_ret.calls + 1]
                 /\ set_log' = executed_at
                 /\ UNCHANGED << cache, files >>
          ELSE LET got == ToolCache_get(name, tool_input)
                   missed == [cache EXCEPT !.memory_cache = got.memory_cache]
               IN IF got.result # "None"
                    THEN \* return cached_result
                         /\ cache_ret' = [op |-> "call", tool_name |-> name,
                                          tool_input |-> tool_input,
                                          result |-> got.result,
                                          executed |-> FALSE,
                                          calls |-> cache_ret.calls + 1]
                         /\ cache' = missed
                         /\ files' = got.files
                         /\ UNCHANGED set_log
                  ELSE \* result = func(...); tool_cache.set(...)
                       LET key == _generate_key(name, tool_input)
                           entry == [result |-> result, expires_at |-> now + cache.ttl]
                       IN /\ cache_ret' = [op |-> "call", tool_name |-> name,
                                           tool_input |-> tool_input, result |-> result,
                                           executed |-> TRUE,
                                           calls |-> cache_ret.calls + 1]
                          /\ cache' = [cache EXCEPT !.memory_cache =
                                         (key :> entry) @@ got.memory_cache]
                          /\ files' = IF cache.cache_dir
                                        THEN (key :> (entry @@ [corrupt |-> FALSE]))
                                               @@ got.files
                                      ELSE got.files
                          /\ set_log' = executed_at
       /\ UNCHANGED << now, dir_mode, threads, runvars, poolvars >>

WrapperSpec == WrapperInit /\ [][WrappedCall \/ CacheTick]_vars

\* ------------------------------------------------------------------------
\* one ToolCache shared by concurrent runs: get and set are not atomic, a
\* run can be preempted between two statements
\* ------------------------------------------------------------------------
Threads == { 1, 2 }
\* calls each run makes on the shared cache
MaxThreadCalls == 2

NoEntry == [result |-> "None", expires_at |-> 0]

\* a run between two calls, with the input and the result of its last call
Idle(th, result) ==
  [pc |-> "idle", op |-> th.op, tool_input |-> th.tool_input,
   entry |-> NoEntry, result |-> result, calls |-> th.calls]

\* the payload the runs store
SharedPayload == "P1"

SharedCacheInit ==
  /\ RunUnused
  /\ PoolUnused
  /\ dir_mode = "writable"
  /\ \E dir \in BOOLEAN, ttl_seconds \in 1..MaxTtl :
       cache = ToolCache(dir, ttl_seconds)
  /\ files = << >>
  /\ now = 0
  /\ set_log = << >>
  /\ cache_ret = [op |-> "none", calls |-> 0]
  /\ threads = [t \in Threads |->
                  [pc |-> "idle", op |-> "none", tool_input |-> EmptyDict,
                   entry |-> NoEntry, result |-> "None", calls |-> 0]]

\* a run calls get or set
ThreadCall(t) ==
  /\ threads[t].pc = "idle"
  /\ threads[t].calls < MaxThreadCalls
  /\ \E tool_input \in ToolInputs, op \in { "get", "set" } :
       threads' = [threads EXCEPT ![t] =
         [pc |-> IF op = "get" THEN "get_67" ELSE "set_102",
          op |-> op, tool_input |-> tool_input,
          entry |-> NoEntry, result |-> "None",
          calls |-> threads[t].calls + 1]]
  /\ UNCHANGED << cache, files, now, set_log, cache_ret, dir_mode, runvars, poolvars >>

\* the next statement of get in run t; a KeyError leaves get
ThreadGet(t) ==
  LET th == threads[t]
      key == _generate_key("fetch_market_data", th.tool_input)
      memory_cache == cache.memory_cache
      loaded == _load_from_file(key)
      Leave(result) == threads' = [threads EXCEPT ![t] = Idle(th, result)]
      Goto(line) == threads' = [threads EXCEPT ![t].pc = line]
  IN /\ th.pc \in { "get_67", "get_68", "get_69", "get_74", "get_77" }
     /\ CASE th.pc = "get_67" ->
               \* if key in self.memory_cache:
               /\ Goto(IF key \in DOMAIN memory_cache THEN "get_68" ELSE "get_77")
               /\ UNCHANGED << cache, files >>
          [] th.pc = "get_68" ->
               \* entry = self.memory_cache[key]
               /\ IF key \in DOMAIN memory_cache
                    THEN threads' = [threads EXCEPT ![t].pc = "get_69",
                                                    ![t].entry = memory_cache[key]]
                  ELSE Leave("raise")
               /\ UNCHANGED << cache, files >>
          [] th.pc = "get_69" ->
               \* if datetime.now() < entry["expires_at"]: return entry["result"]
               /\ IF now < th.entry.expires_at
                    THEN Leave(th.entry.result)
                  ELSE Goto("get_74")
               /\ UNCHANGED << cache, files >>
          [] th.pc = "get_74" ->
               \* del self.memory_cache[key]
               /\ IF key \in DOMAIN memory_cache
                    THEN /\ Goto("get_77")
                         /\ cache' = [cache EXCEPT !.memory_cache = Remove(@, key)]
                  ELSE Leave("raise") /\ UNCHANGED cache
               /\ UNCHANGED files
          [] th.pc = "get_77" ->
               \* the file cache, and the reload into memory
               /\ Leave(loaded.result)
               /\ files' = loaded.files
               /\ cache' = IF loaded.result # "None"
                             THEN [cache EXCEPT !.memory_cache =
                                     (key :> [result |-> loaded.result,
                                              expires_at |-> now + cache.ttl]) @@ @]
                           ELSE cache
     /\ UNCHANGED << now, set_log, cache_ret, dir_mode, runvars, poolvars >>

\* the next statement of set in run t
ThreadSet(t) ==
  LET th == threads[t]
      key == _generate_key("fetch_market_data", th.tool_input)
  IN /\ th.pc \in { "set_102", "set_109" }
     /\ CASE th.pc = "set_102" ->
               \* self.memory_cache[key] = {...}
               /\ cache' = [cache EXCEPT !.memory_cache =
                              (key :> [result |-> SharedPayload,
                                       expires_at |-> now + cache.ttl]) @@ @]
               /\ set_log' = (<< "fetch_market_data", th.tool_input >> :>
                                [result |-> SharedPayload, at |-> now]) @@ set_log
               /\ threads' = [threads EXCEPT ![t].pc = "set_109"]
               /\ UNCHANGED files
          [] th.pc = "set_109" ->
               \* self._save_to_file(key, result)
               /\ files' = _save_to_file(key, SharedPayload)
               /\ threads' = [threads EXCEPT ![t] = Idle(th, "None")]
               /\ UNCHANGED << cache, set_log >>
     /\ UNCHANGED << now, cache_ret, dir_mode, runvars, poolvars >>

SharedCacheSpec ==
  SharedCacheInit
    /\ [][CacheTick \/ \E t \in Threads : ThreadCall(t) \/ ThreadGet(t) \/ ThreadSet(t)]_vars

\* ------------------------------------------------------------------------
\* old/src/construction_assistant/parallel_executor.py: ParallelToolExecutor
\* ------------------------------------------------------------------------
MaxWorkers == 2
MaxToolCalls == 3

\* loop.run_in_executor(None, ...) runs the tool in the event loop's default
\* executor, a ThreadPoolExecutor() built without max_workers: its size is
\* min(32, os.cpu_count() + 4), at least 5, whatever self.max_workers is
DefaultExecutorWorkers == 5

\* what tool_invoke_fn does for a call: it returns a result or raises
InvokeOutcome(call) ==
  IF call.fails THEN [kind |-> "raise", of |-> call.id]
  ELSE [kind |-> "result", of |-> call.id]

\* a collection without the except clause: the entry of a call that raised
\* is not written
Collected_uncaught(results, call) ==
  IF InvokeOutcome(call).kind = "raise" THEN results
  ELSE (call.id :> InvokeOutcome(call)) @@ results

\* results[tool_id] = result, or {"error": str(e)} when the invocation raised
Collected(results, call) ==
  IF InvokeOutcome(call).kind = "raise"
    THEN (call.id :> [kind |-> "error", of |-> call.id]) @@ results
  ELSE (call.id :> InvokeOutcome(call)) @@ results

\* a dispatch that does not look for a running event loop
Dispatch_ignores_running_loop(p) ==
  IF Len(p.tool_calls) = 0 THEN "empty"
  ELSE IF Len(p.tool_calls) = 1 THEN "single"
  ELSE IF p.use_asyncio THEN "asyncio"
  ELSE "threaded"

\* the strategy execute_tools_parallel takes first
Dispatch(p) ==
  IF Len(p.tool_calls) = 0 THEN "empty"
  ELSE IF Len(p.tool_calls) = 1 THEN "single"
  ELSE IF p.use_asyncio
    THEN IF p.loop_running THEN "threaded" ELSE "asyncio"
  ELSE "threaded"

\* the number of invocations the pool of a strategy runs at a time
Capacity(p) ==
  IF p.pc = "asyncio" THEN DefaultExecutorWorkers ELSE p.max_workers

InFlight(p) == { i \in DOMAIN p.status : p.status[i] = "running" }

\* ParallelToolExecutor(max_workers, use_asyncio), a list of tool calls with
\* distinct ids, and the calling context: an event loop is running or not,
\* and the asyncio machinery works or raises when the loop is set up.  The
\* id of a call is whatever the dict holds (Dict[str, Any]): at most one
\* call of the list has an id that cannot be a dict key (a list, a dict).
\* invoked counts the calls of tool_invoke_fn for each tool call, handled
\* tells that the except clause of execute_tools_parallel has been entered
PoolInit ==
  /\ RunUnused
  /\ CacheUnused
  /\ \E max_workers \in 1..MaxWorkers, use_asyncio \in BOOLEAN,
        loop_running \in BOOLEAN, asyncio_raises \in BOOLEAN,
        n \in 0..MaxToolCalls :
       \E fails \in [1..n -> BOOLEAN], unhashable \in 0..n :
         pool = [pc |-> "call",
                 max_workers |-> max_workers, use_asyncio |-> use_asyncio,
                 loop_running |-> loop_running, asyncio_raises |-> asyncio_raises,
                 tool_calls |-> [i \in 1..n |-> [id |-> i, fails |-> fails[i],
                                                hashable |-> i # unhashable]],
                 status |-> [i \in 1..n |-> "pending"],
                 strategies |-> << >>,
                 results |-> << >>,
                 invoked |-> [i \in 1..n |-> 0],
                 handled |-> FALSE,
                 peak |-> 0]

\* execute_tools_parallel up to the choice of the strategy; a failure of the
\* asyncio strategy is logged and the threaded strategy takes over
Execute ==
  LET first == Dispatch(pool)
  IN /\ pool.pc = "call"
     /\ pool' =
          IF first = "empty" THEN [pool EXCEPT !.pc = "returned"]
          ELSE IF first = "asyncio" /\ pool.asyncio_raises
            THEN [pool EXCEPT !.pc = "threaded", !.handled = TRUE,
                              !.strategies = << "asyncio", "threaded" >>]
          ELSE [pool EXCEPT !.pc = first, !.strategies = << first >>]
     /\ UNCHANGED << runvars, cachevars >>

\* _execute_single_tool: the call is invoked on the caller; {tool_id: ...}
\* raises TypeError for an id that cannot be a key, in the try and again in
\* the handler
ExecuteSingle ==
  /\ pool.pc = "single"
  /\ pool' = IF pool.tool_calls[1].hashable
               THEN [pool EXCEPT !.pc = "returned",
                                 !.status = [i \in DOMAIN pool.status |-> "collected"],
                                 !.results = Collected(<< >>, pool.tool_calls[1]),
                                 !.invoked[1] = @ + 1,
                                 !.peak = 1]
             ELSE [pool EXCEPT !.pc = "raised",
                               !.status = [i \in DOMAIN pool.status |-> "done"],
                               !.invoked[1] = @ + 1,
                               !.peak = 1]
  /\ UNCHANGED << runvars, cachevars >>

\* a worker of the pool takes the next submitted call
WorkerStart ==
  /\ pool.pc \in { "threaded", "asyncio" }
  /\ Cardinality(InFlight(pool)) < Capacity(pool)
  /\ \E i \in DOMAIN pool.status :
       /\ pool.status[i] = "pending"
       /\ \A j \in 1..(i - 1) : pool.status[j] # "pending"
       /\ pool' = [pool EXCEPT !.status[i] = "running",
                               !.invoked[i] = @ + 1,
                               !.peak = Max(@, Cardinality(InFlight(pool)) + 1)]
  /\ UNCHANGED << runvars, cachevars >>

\* an invocation ends, with a result or an exception
WorkerFinish ==
  /\ pool.pc \in { "threaded", "asyncio" }
  /\ \E i \in InFlight(pool) : pool' = [pool EXCEPT !.status[i] = "done"]
  /\ UNCHANGED << runvars, cachevars >>

\* the caller collects an outcome: as the futures complete in the threaded
\* strategy, in the order of the tasks in the asyncio strategy.
\* results[tool_id] = ... raises TypeError for an id that cannot be a key,
\* in the try and again in its handler, so the exception leaves the
\* strategy; every call has been submitted by then and the submitted
\* invocations still run (the with block waits for them, the default
\* executor keeps its queue).  Inside the try of execute_tools_parallel the
\* exception enters the except clause, which runs the threaded strategy on
\* the whole list; from that clause, and without asyncio, it leaves
\* execute_tools_parallel
Collect ==
  /\ pool.pc \in { "threaded", "asyncio" }
  /\ \E i \in DOMAIN pool.status :
       /\ pool.status[i] = "done"
       /\ pool.pc = "asyncio" => \A j \in 1..(i - 1) : pool.status[j] = "collected"
       /\ LET submitted == [j \in DOMAIN pool.status |->
                              IF pool.status[j] = "pending"
                                THEN pool.invoked[j] + 1 ELSE pool.invoked[j]]
          IN pool' =
               IF pool.tool_calls[i].hashable
                 THEN [pool EXCEPT !.status[i] = "collected",
                                   !.results = Collected(@, pool.tool_calls[i])]
               ELSE IF pool.use_asyncio /\ ~pool.handled
                 THEN [pool EXCEPT !.pc = "threaded", !.handled = TRUE,
                                   !.strategies = IF pool.pc = "asyncio"
                                                    THEN << "asyncio", "threaded" >>
                                                  ELSE @,
                                   !.status = [j \in DOMAIN pool.status |-> "pending"],
                                   !.results = << >>,
                                   !.invoked = submitted]
               ELSE [pool EXCEPT !.pc = "raised",
                                 !.status = [j \in DOMAIN pool.status |-> "done"],
                                 !.invoked = submitted]
  /\ UNCHANGED << runvars, cachevars >>

\* return results
ExecuteReturn ==
  /\ pool.pc \in { "threaded", "asyncio" }
  /\ \A i \in DOMAIN pool.status : pool.status[i] = "collected"
  /\ pool' = [pool EXCEPT !.pc = "returned"]
  /\ UNCHANGED << runvars, cachevars >>

PoolSpec ==
  PoolInit /\ [][Execute \/ ExecuteSingle \/ WorkerStart \/ WorkerFinish
                 \/ Collect \/ ExecuteReturn]_vars

\* ------------------------------------------------------------------------
\* run called concurrently on one orchestrator: self.graph and
\* self.compiled_graph are the agent's, the Run State is each call's
\* ------------------------------------------------------------------------
\* the statements of build_graph, in order
BuildSteps ==
  << [op |-> "add_node", node |-> "parse"],
     [op |-> "add_node", node |-> "validate_parse"],
     [op |-> "add_node", node |-> "clarify"],
     [op |-> "add_node", node |-> "fetch"],
     [op |-> "add_node", node |-> "use_tools"],
     [op |-> "add_node", node |-> "llm_with_tools"],
     [op |-> "add_node", node |-> "refetch"],
     [op |-> "add_node", node |-> "compare"],
     [op |-> "add_node", node |-> "validate_comparison"],
     [op |-> "add_node", node |-> "format"],
     [op |-> "add_edge", node |-> "START"],
     [op |-> "add_edge", node |-> "parse"],
     [op |-> "add_conditional_edges", node |-> "validate_parse"],
     [op |-> "add_edge", node |-> "clarify"],
     [op |-> "add_edge", node |-> "fetch"],
     [op |-> "add_edge", node |-> "use_tools"],
     [op |-> "add_conditional_edges", node |-> "llm_with_tools"],
     [op |-> "add_edge", node |-> "refetch"],
     [op |-> "add_edge", node |-> "compare"],
     [op |-> "add_edge", node |-> "validate_comparison"],
     [op |-> "add_edge", node |-> "format"],
     [op |-> "compile", node |-> "END"] >>

\* StateGraph(AgentState), as __init__ leaves it
EmptyGraph == [nodes |-> {}, edges |-> {}, branches |-> {}]

\* the prompts and the Bid Source's answers of the concurrent calls
ConcurrentPrompts == { << "P", "-", "1" >>, << "P", "-", "1" >> \o roofing }
ConcurrentBidLists ==
  { b \in BidLists : Len(b) = MaxBidsPerCall /\ b[1].price >= b[Len(b)].price }

\* what the collaborators answer to node n of a call without backend
CallAnswer(n, bids) ==
  CASE n = "parse" -> [kind |-> "raise"]
    [] n \in { "fetch", "refetch" } -> bids
    [] n = "llm_with_tools" -> << >>
    [] n = "format" -> "raise"
    [] OTHER -> 0

\* compiled_graph.invoke(initial_state) of a call that runs alone, from node n
RECURSIVE InvokeFrom(_, _, _)
InvokeFrom(n, st, bids) ==
  IF n = "END" THEN st
  ELSE LET merged == Merge(st, NodeReturn(n, st, CallAnswer(n, bids)))
       IN InvokeFrom(EdgeFrom(n, merged), merged, bids)

\* what run(prompt) returns when it is the only call
RunAlone(prompt, bids) ==
  Snapshot(InvokeFrom(EdgeFrom("START", initial_state(prompt)),
                      initial_state(prompt), bids))

ConcurrentInit ==
  /\ \E top_n \in 1..MaxTopN, min_bids \in 0..MaxMinBids :
       self = [top_n |-> top_n, min_bids |-> min_bids, max_retries |-> 0,
               llm |-> FALSE, graph |-> EmptyGraph, compiled_graph |-> FALSE]
  /\ pc = "concurrent"
  /\ state = EmptyDict
  /\ ret = EmptyDict
  /\ path = << >>
  /\ src_log = << >>
  /\ returned = EmptyDict
  /\ direct = FALSE
  /\ cache = [memory_cache |-> << >>, cache_dir |-> FALSE, ttl |-> 1]
  /\ files = << >>
  /\ now = 0
  /\ set_log = << >>
  /\ cache_ret = [op |-> "none", calls |-> 0]
  /\ dir_mode = "writable"
  /\ PoolUnused
  /\ threads \in [Threads ->
       [pc : { "run_696" }, line : { 0 }, prompt : ConcurrentPrompts,
        bids : ConcurrentBidLists, state : { EmptyDict },
        returned : { EmptyDict }]]

\* run, line 696: build the graph unless it is compiled
RunEnter(t) ==
  /\ threads[t].pc = "run_696"
  /\ threads' = [threads EXCEPT ![t] =
       IF self.compiled_graph
         THEN [@ EXCEPT !.pc = "START",
                        !.state = initial_state(threads[t].prompt)]
       ELSE [@ EXCEPT !.pc = "build_graph", !.line = 1]]
  /\ UNCHANGED << runvars, cache, files, now, set_log, cache_ret, dir_mode, poolvars >>

\* the next statement of build_graph in call t.  add_node raises ValueError
\* for a node the graph already has, add_conditional_edges for a source
\* that already has the branch; the edges are a set
RunBuild(t) ==
  /\ threads[t].pc = "build_graph"
  /\ LET th == threads[t]
         s == BuildSteps[th.line]
         g == self.graph
         raises == \/ s.op = "add_node" /\ s.node \in g.nodes
                   \/ s.op = "add_conditional_edges" /\ s.node \in g.branches
     IN /\ self' =
             IF raises THEN self
             ELSE CASE s.op = "add_node" ->
                         [self EXCEPT !.graph.nodes = @ \cup { s.node }]
                    [] s.op = "add_edge" ->
                         [self EXCEPT !.graph.edges = @ \cup { s.node }]
                    [] s.op = "add_conditional_edges" ->
                         [self EXCEPT !.graph.branches = @ \cup { s.node }]
                    [] s.op = "compile" ->
                         [self EXCEPT !.compiled_graph = TRUE]
        /\ threads' = [threads EXCEPT ![t] =
             IF raises THEN [@ EXCEPT !.pc = "raised"]
             ELSE IF s.op = "compile"
               THEN [@ EXCEPT !.pc = "START", !.state = initial_state(th.prompt)]
             ELSE [@ EXCEPT !.line = @ + 1]]
  /\ UNCHANGED << pc, state, ret, path, src_log, returned, direct >>
  /\ UNCHANGED << cache, files, now, set_log, cache_ret, dir_mode, poolvars >>

\* compiled_graph.invoke in call t: one step of the engine on the call's
\* own Run State
RunStep(t) ==
  /\ threads[t].pc \in Nodes \cup { "START" }
  /\ LET th == threads[t]
         merged == IF th.pc = "START" THEN th.state
                   ELSE Merge(th.state,
                              NodeReturn(th.pc, th.state, CallAnswer(th.pc, th.bids)))
     IN threads' = [threads EXCEPT ![t] =
          [@ EXCEPT !.pc = EdgeFrom(th.pc, merged), !.state = merged]]
  /\ UNCHANGED << runvars, cache, files, now, set_log, cache_ret, dir_mode, poolvars >>

\* call t returns its snapshot
RunReturn(t) ==
  /\ threads[t].pc = "END"
  /\ threads' = [threads EXCEPT ![t] =
       [@ EXCEPT !.pc = "returned", !.returned = Snapshot(threads[t].state)]]
  /\ UNCHANGED << runvars, cache, files, now, set_log, cache_ret, dir_mode, poolvars >>

ConcurrentSpec ==
  ConcurrentInit
  /\ [][\E t \in Threads : RunEnter(t) \/ RunBuild(t) \/ RunStep(t) \/ RunReturn(t)]_vars

\* ------------------------------------------------------------------------
\* Properties
\* ------------------------------------------------------------------------
\* the control field fetch_attempts of the Run State
FetchAttempts(st) == Get(st, "_fetch_attempts", 0)

Visited(n) == \E i \in 1..Len(path) : path[i] = n

TimesVisited(n) == Cardinality({ i \in 1..Len(path) : path[i] = n })

\* the order in which build_graph lays out the nodes
GraphOrder ==
  << "START", "parse", "validate_parse", "clarify", "fetch", "use_tools",
     "llm_with_tools", "refetch", "compare", "validate_comparison", "format",
     "END", "returned" >>

Rank(n) == CHOOSE i \in 1..Len(GraphOrder) : GraphOrder[i] = n

C2_FetchAttemptsCounts ==
  [][ /\ FetchAttempts(state') >= FetchAttempts(state)
      /\ (pc \in { "fetch", "refetch" } /\ pc' # "raised"
            => FetchAttempts(state') = FetchAttempts(state) + 1)
      /\ FetchAttempts(state') <= self.max_retries + 1 ]_vars

\* C3: a fetch or refetch step never computes needs_refetch true together
\* with a fetch_attempts above max_retries, and the Run State never holds
\* such a pair.
C3_NoRefetchBeyondBudget ==
  /\ (Get(ret, "_needs_refetch", FALSE) => Get(ret, "_fetch_attempts", 0) <= self.max_retries)
  /\ (Get(state, "_needs_refetch", FALSE) => FetchAttempts(state) <= self.max_retries)

\* a fetch or refetch step asked for another fetch with the budget's last
\* attempt
C3_Witness ==
  /\ path # << >>
  /\ path[Len(path)] \in { "fetch", "refetch" }
  /\ pc # "raised"
  /\ Get(ret, "_needs_refetch", FALSE)
  /\ Get(ret, "_fetch_attempts", 0) = self.max_retries

\* C4: when a run enters compare it has enough bids or has used up its retry
\* budget (counted here by the fetches actually made, the reading most
\* favourable to the code).
C4_CompareAfterEnoughOrExhausted ==
  (~direct /\ pc = "compare")
    => ~(Len(state["bids"]) < self.min_bids /\ Len(src_log) < self.max_retries)

\* C5: with min_bids = 2, max_retries = 2 and a Bid Source that returns one
\* bid per call, the run ends after exactly 3 calls of the Bid Source.
C5_ThreeFetchCalls ==
  (/\ pc = "returned"
   /\ self.min_bids = 2
   /\ self.max_retries = 2
   /\ \A i \in 1..Len(src_log) : src_log[i] = 1)
    => Len(src_log) = 3

\* C6: the step after validate_parse is fetch exactly when project_id is not
\* None and the confidence parse produced is above 0.5; otherwise clarify.
C6_RouteAfterValidation ==
  [][ (~direct /\ pc = "validate_parse")
        => (pc' = "fetch"
              <=> (state["project_id"] # None /\ ret["_parse_confidence"] > 5)) ]_vars

\* C7: every field a step returns is in the Run State with that value when
\* the step is over.
C7_ReturnsMerged ==
  ~direct => \A k \in DOMAIN ret : k \in DOMAIN state /\ state[k] = ret[k]

\* C8: clarify runs at most once, fetch follows it directly, and after it
\* validation_passed is true and project_id and scope are not None.
C8_ClarifyOnce ==
  /\ TimesVisited("clarify") <= 1
  /\ \A i \in 1..Len(path) :
       path[i] = "clarify" =>
         /\ (i < Len(path) => path[i + 1] = "fetch")
         /\ (i = Len(path) =>
               /\ pc = "fetch"
               /\ Get(state, "_validation_passed", FALSE)
               /\ state["project_id"] # None
               /\ state["scope"] # None)

\* C9: a fallback-mode run on a prompt in which the regex extractor finds no
\* identifier visits clarify and returns with project_id "UNKNOWN".
C9_UnknownSentinel ==
  (~direct /\ ~self.llm /\ _parse_with_regex(state["prompt"]).project_id = None)
    => /\ pc # "raised"
       /\ (Visited("validate_parse") => pc = "clarify" \/ Visited("clarify"))
       /\ (Visited("clarify") => state["project_id"] = UNKNOWN)
       /\ (pc = "returned" => returned["project_id"] = UNKNOWN)

\* a fallback-mode run on a prompt without identifier has returned
C9_Witness ==
  /\ pc = "returned"
  /\ ~self.llm
  /\ _parse_with_regex(state["prompt"]).project_id = None
  /\ state["prompt"] # << >>

\* C10: a failure of the Bid Source or of an enrichment tool does not abort
\* the run: no exception leaves fetch or refetch, and use_tools records both
\* tools, each failure with a status and its message.
C10_FailuresRecorded ==
  /\ ~(pc = "raised" /\ path # << >> /\ path[Len(path)] \in { "fetch", "refetch" })
  /\ (path # << >> /\ path[Len(path)] = "use_tools" =>
        /\ Len(ret["tool_calls"]) = 2
        /\ \A i \in 1..2 :
             /\ ret["tool_calls"][i].status \in { "success", "failed", "error" }
             /\ (ret["tool_calls"][i].status # "success"
                   => "error" \in DOMAIN ret["tool_calls"][i]))

C12_RefetchKeepsEveryBid ==
  [][ (pc = "refetch" /\ pc' \in { "called", "compare" }) =>
        /\ \E a \in BidLists :
             /\ Len(a) = src_log'[Len(src_log')]
             /\ ret'["bids"] = SliceTo(state["bids"] \o a, 10)
        /\ Len(ret'["bids"]) <= 10
        /\ \A i \in 1..Len(state["bids"]) :
             \E j \in 1..Len(ret'["bids"]) : ret'["bids"][j] = state["bids"][i] ]_vars

\* C12: after a refetch, bids is the bids held before followed by the newly
\* fetched ones, cut to the first 10; it has at most 10 entries, and the
\* bids held before are its prefix when there were at most 10 of them.
C12_RefetchAppendsAndCaps ==
  [][ (pc = "refetch" /\ pc' \in { "called", "compare" }) =>
        /\ \E a \in BidLists :
             /\ Len(a) = src_log'[Len(src_log')]
             /\ ret'["bids"] = SliceTo(state["bids"] \o a, 10)
        /\ Len(ret'["bids"]) <= 10
        /\ (Len(state["bids"]) <= 10 =>
              /\ Len(ret'["bids"]) >= Len(state["bids"])
              /\ SubSeq(ret'["bids"], 1, Len(state["bids"])) = state["bids"]) ]_vars

C12_Witness ==
  /\ path = << "refetch" >> /\ pc = "called"
  /\ Len(state["bids"]) = 9 /\ src_log = << 2 >> /\ Len(ret["bids"]) = 10

\* C13: a failure of the text-generation extraction (the backend raises, the
\* transport fails, or the reply is not the expected two-field object) never
\* leaves run(), in either orchestrator: the parse step then returns the
\* regex fallback's project_id and scope.
C13_ExtractionFailureFallsBack ==
  [][ (pc \in { "parse", "basic_parse" } /\ self.llm) =>
        /\ pc' # "raised"
        /\ \/ \E r \in LlmParseReplies :
                /\ r.kind = "object"
                /\ ret'["project_id"] = r.project_id /\ ret'["scope"] = r.scope
           \/ LET fallback == _parse_with_regex(state["prompt"])
              IN ret'["project_id"] = fallback.project_id
                 /\ ret'["scope"] = fallback.scope ]_vars

\* C14: when the text-generation formatting fails, the recommendation the
\* format step writes is the templated text for the same top bids: after
\* the format step of either orchestrator the recommendation is the
\* backend's text or the templated text, never empty or missing.
C14_FormatFailureFallsBack ==
  (~direct /\ path # <<>> /\ pc # "raised") =>
    LET top == Get(state["comparison"], "top", <<>>)
    IN /\ (path[Len(path)] = "format" =>
             ret["recommendation"] \in
               { LlmText,
                 _format_default(top, ToolInsights(state["tool_results"])) })
       /\ (path[Len(path)] = "basic_format" =>
             ret["recommendation"] \in
               { LlmText, LangGraphAgent_format_with_default(top) })

\* C15: for the prompt "Get subcontractor bids for foundation works on
\* project P-2025-001" with top_n=2 and no backend, the result has
\* project_id "P-2025-001", scope "foundation", at least one bid, a
\* comparison.top sorted ascending by price and a non-empty recommendation.
C15_EndToEndScenario ==
  (pc = "returned" /\ returned["prompt"] = ScenarioPrompt) =>
    LET top == Get(returned["comparison"], "top", <<>>)
    IN /\ returned["project_id"] = << "P", "-", "2", "0", "2", "5", "-", "0", "0", "1" >>
       /\ returned["scope"] = scope_keywords[1]
       /\ Len(returned["bids"]) >= 1
       /\ \A i \in 1..(Len(top) - 1) : top[i].price <= top[i + 1].price
       /\ returned["recommendation"] # <<>>

\* C16: for every prompt that contains the identifier P-12, whatever text
\* surrounds it, the regex extractor returns exactly P-12 as project_id.
C16_ExtractsPIdentifier ==
  (pc = "called" /\ path = << "_parse_with_regex" >>
   /\ Contains(state["prompt"], << "P", "-", "1", "2" >>))
    => ret["project_id"] = << "P", "-", "1", "2" >>

\* how many times bid b occurs in the list
Occurrences(bids, b) == Cardinality({ i \in 1..Len(bids) : bids[i] = b })

\* the ranker's guarantee about top: sorted ascending by price, of length
\* min(top_n, len(bids)), made of bids of the list, none more expensive than
\* a bid left out
TopIsCheapest(bids, top_n, top) ==
  /\ \A i \in 1..(Len(top) - 1) : top[i].price <= top[i + 1].price
  /\ Len(top) = Min(top_n, Len(bids))
  /\ \A b \in Bid :
       /\ Occurrences(top, b) <= Occurrences(bids, b)
       /\ (Occurrences(top, b) < Occurrences(bids, b) =>
             \A i \in 1..Len(top) : top[i].price <= b.price)

\* C17 as stated: for every bid list and every top_n, compare_bids(bids,
\* top_n).top is sorted ascending by price, has length min(top_n, len(bids))
\* and holds bids of the list no more expensive than any bid left out.
C17_TopForEveryTopN ==
  (pc = "called" /\ path = << "compare_bids" >>) =>
    TopIsCheapest(state["bids"], self.top_n, ret["top"])

\* C17: for every bid list and every top_n >= 0, compare_bids(bids,
\* top_n).top is sorted ascending by price, has length min(top_n, len(bids))
\* and holds bids of the list no more expensive than any bid left out.
C17_TopSortedCheapest ==
  (pc = "called" /\ path = << "compare_bids" >> /\ self.top_n >= 0) =>
    TopIsCheapest(state["bids"], self.top_n, ret["top"])

C17_Witness ==
  /\ pc = "called" /\ path = << "compare_bids" >>
  /\ Len(state["bids"]) = 3 /\ self.top_n = 2
  /\ state["bids"][1].price > state["bids"][3].price

\* C18: compare_bids is stable: the bids of one price appear in top in the
\* order they have in the list handed in.
C18_StableSort ==
  (pc = "called" /\ path = << "compare_bids" >>) =>
    \A p \in Prices :
      LET AtPrice(b) == b.price = p
          kept == SelectSeq(ret["top"], AtPrice)
          given == SelectSeq(state["bids"], AtPrice)
      IN Len(kept) <= Len(given) /\ kept = SubSeq(given, 1, Len(kept))

C18_Witness ==
  /\ pc = "called" /\ path = << "compare_bids" >>
  /\ Len(state["bids"]) = 3 /\ Len(ret["top"]) >= 2
  /\ state["bids"][1].price > state["bids"][2].price
  /\ state["bids"][2].price = state["bids"][3].price
  /\ state["bids"][2].subcontractor # state["bids"][3].subcontractor

\* C19: compare_bids reports count = the number of bids handed in and
\* average_price = the mean price over all of them, not only the top_n; for
\* the empty list it returns top = [] and count = 0 and no average_price.
C19_CountAndAverage ==
  (pc = "called" /\ path = << "compare_bids" >>) =>
    LET bids == state["bids"]
    IN IF bids = <<>>
         THEN DOMAIN ret = { "top", "count" } /\ ret["top"] = <<>> /\ ret["count"] = 0
       ELSE /\ ret["count"] = Len(bids)
            /\ ret["average_price"].den = Len(bids)
            /\ ret["average_price"].num =
                 Cardinality({ i \in 1..Len(bids) : bids[i].price = 1 })
                 + 2 * Cardinality({ i \in 1..Len(bids) : bids[i].price = 2 })

C19_Witness ==
  /\ pc = "called" /\ path = << "compare_bids" >>
  /\ Len(state["bids"]) = 3 /\ self.top_n = 1
  /\ state["bids"][1].price # state["bids"][2].price
  /\ ret["count"] = 3 /\ Len(ret["top"]) = 1

\* C20: a get issued right after a set with the identical (tool, input)
\* returns the payload just set (the most recently written one when the
\* key was set before), and a get for a (tool, input) that was never set
\* returns a miss.
C20_GetAfterSet ==
  /\ [][ (cache_ret.op = "set" /\ cache_ret'.op = "get"
          /\ cache_ret'.tool_name = cache_ret.tool_name
          /\ cache_ret'.tool_input = cache_ret.tool_input)
         => cache_ret'.result = cache_ret.result ]_vars
  /\ [](cache_ret.op = "get"
         /\ << cache_ret.tool_name, cache_ret.tool_input >> \notin DOMAIN set_log
         => cache_ret.result = "None")

\* C21: once the configured TTL has elapsed since the last set of a (tool,
\* input), every get for it returns a miss, whatever gets came in between,
\* and also when the entry is reloaded from its file by the same or by a new
\* cache instance: a reload never extends the life of an entry beyond
\* set time + TTL.
C21_MissAfterTtl ==
  LET key == _generate_key(cache_ret.tool_name, cache_ret.tool_input)
      \* the sets of this (tool, input), and of any input written to the
      \* same key
      sets == { k \in DOMAIN set_log : _generate_key(k[1], k[2]) = key }
  IN (cache_ret.op = "get"
        /\ << cache_ret.tool_name, cache_ret.tool_input >> \in sets
        /\ \A k \in sets : now >= set_log[k].at + cache.ttl)
       => cache_ret.result = "None"

\* C22: an absent or corrupted cache file is a cache miss; a cache directory
\* that cannot be created leaves the cache without a directory and one that
\* cannot be written leaves every set in memory only, no file being written;
\* in neither case does the constructor, get or set raise, and a get right
\* after a set on the same cache still returns the payload set.
C22_FileFaultsAreMisses ==
  /\ [](/\ cache_ret.op \in { "get", "set" } => cache_ret.result # "raise"
        /\ dir_mode = "uncreatable" => ~cache.cache_dir /\ files = << >>)
  /\ [][ /\ (cache_ret'.op = "get"
               /\ LET key == _generate_key(cache_ret'.tool_name, cache_ret'.tool_input)
                  IN /\ key \notin DOMAIN cache.memory_cache
                     /\ (key \in DOMAIN files => files[key].corrupt))
              => cache_ret'.result = "None"
         /\ (cache_ret'.op = "set" /\ dir_mode # "writable") => files' = files
         /\ (cache_ret.op = "set" /\ cache_ret'.op = "get"
               /\ cache_ret'.tool_name = cache_ret.tool_name
               /\ cache_ret'.tool_input = cache_ret.tool_input)
              => cache_ret'.result = cache_ret.result ]_vars

\* a get found the file of an entry that was set and has not expired
\* damaged, in a directory that has stopped being writable, and missed
C22_Witness ==
  LET key == _generate_key(cache_ret.tool_name, cache_ret.tool_input)
      k == << cache_ret.tool_name, cache_ret.tool_input >>
  IN /\ cache_ret.op = "get" /\ cache_ret.result = "None"
     /\ key \in DOMAIN files /\ files[key].corrupt
     /\ dir_mode = "readonly"
     /\ k \in DOMAIN set_log /\ now < set_log[k].at + cache.ttl

\* C23: the cache can be shared by concurrent runs without a lock: in every
\* interleaving of their get and set calls, two gets that find the same entry
\* expired included, every call completes without an error, and every get
\* returns a miss or a payload that was set for that key.
C23_SharedWithoutLock ==
  \A t \in DOMAIN threads :
    LET th == threads[t]
        key == _generate_key("fetch_market_data", th.tool_input)
    IN /\ th.result # "raise"
       /\ (th.pc = "idle" /\ th.op = "get" /\ th.result # "None") =>
            \E k \in DOMAIN set_log :
              /\ _generate_key(k[1], k[2]) = key
              /\ set_log[k].result = th.result

\* C24: the cache key is a function of the tool name and the input mapping
\* alone (the same pair always gives the same key), and two distinct inputs
\* to the same tool always give two distinct keys.
C24_DistinctInputsDistinctKeys ==
  (pc = "called" /\ path = << "_generate_key" >>) =>
    /\ state.a = state.b => ret.a = ret.b
    /\ (state.a.tool_name = state.b.tool_name
          /\ state.a.tool_input # state.b.tool_input) => ret.a # ret.b

\* C25: execute_tools_parallel returns, for every list of tool calls with
\* distinct ids and every interleaving of the workers, a mapping with
\* exactly one entry per call id; a call whose invocation raises has an
\* error payload instead of being left out, and every other call has its own
\* result whether or not a sibling failed.
C25_OneEntryPerCall ==
  pool.pc = "returned" =>
    /\ DOMAIN pool.results = { pool.tool_calls[i].id : i \in DOMAIN pool.tool_calls }
    /\ \A i \in DOMAIN pool.tool_calls :
         LET call == pool.tool_calls[i]
         IN pool.results[call.id] =
              [kind |-> IF call.fails THEN "error" ELSE "result", of |-> call.id]

\* three calls, the second of which raised, were run by workers and returned
C25_Witness ==
  /\ pool.pc = "returned"
  /\ Len(pool.tool_calls) = 3
  /\ pool.tool_calls[2].fails /\ ~pool.tool_calls[1].fails /\ ~pool.tool_calls[3].fails
  /\ pool.peak = 2

C27_InFlightBounded ==
  pool.pc # "unused" =>
    /\ Cardinality(InFlight(pool)) <= pool.max_workers
    /\ Len(pool.tool_calls) = 1 => pool.pc \in { "call", "single", "returned", "raised" }

\* C28 as stated: in _execute_llm_tool_calls a call that names a tool not in
\* the registry is recorded as an error result under that call's identifier,
\* the remaining calls of the list are still executed and recorded, and the
\* entries already present in the results mapping handed in are preserved.
C28_UnknownToolRecorded ==
  (pc = "called" /\ path[1] = "_execute_llm_tool_calls") =>
    LET calls == state.tool_calls
    IN /\ \A i \in 1..Len(calls) :
            /\ IdOf(calls[i]) \in DOMAIN ret
            /\ NameOf(calls[i]) \notin AVAILABLE_TOOLS
                 => ret[IdOf(calls[i])] = [error |-> "Tool not found"]
       /\ \A k \in DOMAIN state.tool_results : ret[k] = state.tool_results[k]

\* C28, amended: every call of the list is executed and its result written
\* under its identifier (its id, or its tool name when it has no id), an
\* unknown tool giving an error result; an identifier holds the result of the
\* last call that carries it, and the entries handed in are preserved under
\* every key that no call of the list carries.
C28_UnknownToolRecordedPerId ==
  (pc = "called" /\ path[1] = "_execute_llm_tool_calls") =>
    LET calls == state.tool_calls
        ids == { IdOf(calls[i]) : i \in 1..Len(calls) }
    IN /\ DOMAIN ret = DOMAIN state.tool_results \cup ids
       /\ \A i \in 1..Len(calls) :
            (\A j \in (i + 1)..Len(calls) : IdOf(calls[j]) # IdOf(calls[i])) =>
              ret[IdOf(calls[i])] =
                IF NameOf(calls[i]) \notin AVAILABLE_TOOLS
                  THEN [error |-> "Tool not found"]
                ELSE ToolResult(NameOf(calls[i]), InputOf(calls[i]))
       /\ \A k \in DOMAIN state.tool_results \ ids : ret[k] = state.tool_results[k]

\* an unknown tool was called first and a registered one after it, with an
\* entry already in the mapping
C28_Witness ==
  /\ pc = "called" /\ path[1] = "_execute_llm_tool_calls"
  /\ Len(state.tool_calls) = 2
  /\ NameOf(state.tool_calls[1]) = "nonexistent_tool"
  /\ IdOf(state.tool_calls[1]) = "call_2"
  /\ IdOf(state.tool_calls[2]) = "call_1"
  /\ NameOf(state.tool_calls[2]) = "fetch_market_data"
  /\ DOMAIN ret = { "previous", "call_1", "call_2" }
  /\ ret["call_2"] = [error |-> "Tool not found"]

\* C29: the tool loop of the llm_with_tools step invokes the backend at most
\* 3 times per execution, whatever the backend replies, a backend that asks
\* for tools in every reply included; it stops at the first reply without
\* tool calls and at the first exception of the backend; and it returns the
\* tool calls and the results accumulated up to there, without raising.
C29_ToolLoopBounded ==
  (pc = "called" /\ path[1] = "_llm_with_tools_node" /\ self.llm) =>
    LET replies == state.replies
        invoked == Len(path) - 1
        \* the replies with tool calls that were consumed
        used == { i \in 1..invoked : replies[i].kind = "calls" }
    IN /\ invoked >= 1 /\ invoked <= 3
       /\ \A i \in 1..(invoked - 1) : replies[i].kind = "calls"
       /\ invoked < 3 => replies[invoked].kind \in { "raise", "final" }
       /\ DOMAIN ret = { "_llm_tool_calls", "_llm_tool_results" }
       /\ Len(ret["_llm_tool_calls"]) = 3 * Cardinality(used)
       /\ \A i \in used : \A j \in 1..3 :
            /\ ret["_llm_tool_calls"][3 * (i - 1) + j] = replies[i].tool_calls[j]
            /\ IdOf(replies[i].tool_calls[j]) \in DOMAIN ret["_llm_tool_results"]
       /\ used = {} => ret["_llm_tool_results"] = EmptyDict

\* the backend asked for tools in all its four replies and was invoked
\* three times
C29_Witness ==
  /\ pc = "called" /\ path[1] = "_llm_with_tools_node" /\ self.llm
  /\ \A i \in 1..MaxReplies : state.replies[i].kind = "calls"
  /\ Len(path) = 4
  /\ Len(ret["_llm_tool_calls"]) = 9

\* C30: a function wrapped by cached_tool with a cache configured executes
\* its body at most once per distinct argument value while the entry is
\* unexpired (a repeated call returns the cached result) and once for each
\* distinct argument value; with no cache configured it executes its body on
\* every call.
C30_BodyOncePerArgument ==
  [][ cache_ret'.calls = cache_ret.calls + 1 =>
        LET k == << cache_ret'.tool_name, cache_ret'.tool_input >>
            \* the arguments executed before that are written to the same key
            same == { e \in DOMAIN set_log :
                        _generate_key(e[1], e[2]) = _generate_key(k[1], k[2]) }
        IN IF cache = NoCache THEN cache_ret'.executed
           ELSE /\ (k \in same /\ now < set_log[k].at + cache.ttl)
                     => /\ ~cache_ret'.executed
                        /\ cache_ret'.result = set_log[k].result
                /\ same = {} => cache_ret'.executed ]_vars

\* C31: concurrent calls of run on one orchestrator share no mutable state:
\* each call completes (none ends with an exception) and returns what it
\* returns when it is the only call.  build_graph mutates self.graph, which
\* the calls share, so a call that finds the graph not compiled while
\* another call is building it gets ValueError from add_node.
C31_ConcurrentRunsIndependent ==
  \A t \in DOMAIN threads :
    "prompt" \in DOMAIN threads[t] =>
      /\ threads[t].pc # "raised"
      /\ threads[t].pc = "returned" =>
           threads[t].returned = RunAlone(threads[t].prompt, threads[t].bids)

\* C32: in every run of the enhanced orchestrator parse, validate_parse,
\* fetch, use_tools, llm_with_tools, compare, validate_comparison and format
\* execute exactly once each and in that order, clarify and refetch at most
\* once, nothing executes after format, and format follows
\* validate_comparison whatever comparison_valid is.
C32_EveryStepOnceInOrder ==
  ~direct /\ pc \notin { "concurrent", "cache" } =>
    /\ \A i, j \in 1..Len(path) : i < j => Rank(path[i]) < Rank(path[j])
    /\ \A i \in 1..Len(path) :
         /\ (path[i] = "format" => i = Len(path))
         /\ (path[i] = "validate_comparison" =>
               IF i < Len(path) THEN path[i + 1] = "format" ELSE pc = "format")
    /\ (pc \in { "END", "returned", "raised" } =>
          \A n \in { "parse", "validate_parse", "fetch", "use_tools",
                     "llm_with_tools", "compare", "validate_comparison",
                     "format" } : TimesVisited(n) = 1)

\* C33: ranking only reads bids: the compare, validate_comparison and format
\* steps return no bids and leave the bids of the Run State as they were
\* (same records, same order), and from the compare step on the Run State
\* holds no fewer bids than the Ranker counted.
C33_RankingOnlyReadsBids ==
  /\ [](~direct /\ Visited("compare") /\ pc # "raised" =>
          Len(state["bids"]) >= state["comparison"]["count"])
  /\ [][ (~direct /\ pc \in { "compare", "validate_comparison", "format" }
            /\ pc' # "raised")
           => /\ state'["bids"] = state["bids"]
              /\ "bids" \notin DOMAIN ret'
              /\ (pc = "compare" =>
                    state'["comparison"]["count"] = Len(state["bids"])) ]_vars

\* a run returned two bids that the Bid Source gave dearest first: the
\* Ranker sorted a copy and the Run State kept the Bid Source's order
C33_Witness ==
  /\ pc = "returned"
  /\ Visited("compare") /\ Visited("format")
  /\ Len(returned["bids"]) = 2
  /\ returned["bids"][1].price > returned["bids"][2].price
  /\ returned["comparison"]["top"][1] = returned["bids"][2]

\* C34: the parse step reports confidence 0.9 only when the extraction by the
\* text-generation backend succeeded; when the regex extractor produced the
\* result (no backend, or the backend's extraction failed) it reports 0.6
\* if an identifier was found and 0.3 otherwise.
C34_ConfidenceTellsExtractor ==
  pc = "parse" =>
    \A a \in Answers("parse") :
      ~_parse_node_raises(state, a) =>
        LET returns == _parse_node(state, a)
            by_regex == ~self.llm \/ a.kind = "raise"
        IN returns["_parse_confidence"] =
             IF ~by_regex THEN 9
             ELSE IF Truthy(returns["project_id"]) THEN 6 ELSE 3

\* C35: with the templated formatting strategy the recommendation holds a
\* line for every top bid and, when tool_results holds market data or a cost
\* estimate, the line of the corresponding tool insight (market context,
\* estimated budget).
C35_TemplateHasBidsAndInsights ==
  [][ (pc = "format" /\ ~self.llm /\ pc' \notin { "format", "raised" }) =>
        LET recommendation == ret'["recommendation"]
            top == Get(Get(state, "comparison", EmptyDict), "top", <<>>)
            insights == ToolInsights(Get(state, "tool_results", EmptyDict))
        IN /\ \A i \in 1..Len(top) :
                \E j \in 1..Len(recommendation) :
                  recommendation[j] =
                    [line |-> "bid", subcontractor |-> top[i].subcontractor,
                     price |-> top[i].price,
                     lead_time_days |-> top[i].lead_time_days]
           /\ \A k \in 1..Len(insights) :
                \E j \in 1..Len(recommendation) :
                  recommendation[j] = insights[k] ]_vars

\* C36: in _execute_llm_tool_calls every call of the list is executed; two
\* calls of the same tool that carry no id share the results key, the tool
\* name, which ends up holding the later call's result only; and calls that
\* all carry ids distinct from each other each keep their own result.
C36_CallsWithoutIdCollide ==
  (pc = "called" /\ path[1] = "_execute_llm_tool_calls") =>
    LET calls == state.tool_calls
        has_id(c) == "id" \in DOMAIN c
        result(c) == ToolResult(NameOf(c), InputOf(c))
    IN /\ Len(Tail(path)) =
            Cardinality({ i \in 1..Len(calls) : NameOf(calls[i]) \in AVAILABLE_TOOLS })
       /\ \A i, j \in 1..Len(calls) :
            (/\ i < j /\ ~has_id(calls[i]) /\ ~has_id(calls[j])
             /\ NameOf(calls[i]) = NameOf(calls[j])
             /\ \A k \in (j + 1)..Len(calls) : IdOf(calls[k]) # NameOf(calls[j]))
              => ret[NameOf(calls[j])] = result(calls[j])
       /\ ((\A i \in 1..Len(calls) : has_id(calls[i]))
            /\ (\A i, j \in 1..Len(calls) : i # j => IdOf(calls[i]) # IdOf(calls[j])))
              => \A i \in 1..Len(calls) : ret[IdOf(calls[i])] = result(calls[i])

\* fetch_market_data was called twice without id, for roofing and then for
\* excavation: both calls were invoked and the one entry is the excavation
\* data
C36_Witness ==
  /\ pc = "called"
  /\ path = << "_execute_llm_tool_calls", "fetch_market_data", "fetch_market_data" >>
  /\ Len(state.tool_calls) = 2
  /\ "id" \notin DOMAIN state.tool_calls[1] \cup DOMAIN state.tool_calls[2]
  /\ InputOf(state.tool_calls[1]) = ("scope" :> roofing)
  /\ state.tool_results = EmptyDict
  /\ DOMAIN ret = { "fetch_market_data" }
  /\ ret["fetch_market_data"].scope = excavation

\* C37: expiry is per entry: a get touches only the entry of its own key (it
\* removes it from the memory_cache and from the files when it finds it
\* expired) and leaves every other entry as it was, and every entry of the
\* memory_cache that is not expired is returned by get with its payload.
C37_ExpiryPerEntry ==
  /\ [](pc = "cache" /\ threads = << >> =>
          \A tool_name \in CachedToolNames, tool_input \in ToolInputs :
            LET key == _generate_key(tool_name, tool_input)
            IN (key \in DOMAIN cache.memory_cache
                  /\ now < cache.memory_cache[key].expires_at)
                 => ToolCache_get(tool_name, tool_input).result
                      = cache.memory_cache[key].result)
  /\ [][ (cache_ret'.op = "get" /\ cache_ret'.calls = cache_ret.calls + 1) =>
          LET key == _generate_key(cache_ret'.tool_name, cache_ret'.tool_input)
          IN /\ \A k \in DOMAIN cache.memory_cache \ { key } :
                  k \in DOMAIN cache'.memory_cache
                    /\ cache'.memory_cache[k] = cache.memory_cache[k]
             /\ \A k \in DOMAIN files \ { key } :
                  k \in DOMAIN files' /\ files'[k] = files[k]
             /\ DOMAIN cache'.memory_cache \subseteq DOMAIN cache.memory_cache \cup { key }
             /\ DOMAIN files' \subseteq DOMAIN files ]_vars

\* a get found its entry expired and removed it while an entry stored later
\* under another key is still in the memory_cache, not expired
C37_Witness ==
  /\ cache_ret.op = "get" /\ cache_ret.result = "None"
  /\ LET key == _generate_key(cache_ret.tool_name, cache_ret.tool_input)
     IN /\ << cache_ret.tool_name, cache_ret.tool_input >> \in DOMAIN set_log
        /\ key \notin DOMAIN cache.memory_cache
        /\ \E k \in DOMAIN cache.memory_cache :
             k # key /\ now < cache.memory_cache[k].expires_at

\* C38: execute_tools_parallel invokes tool_invoke_fn exactly once for each
\* tool call of the list, in the single, the asyncio and the thread-pool
\* strategy and when the thread pool takes over from a failed asyncio
\* strategy; for an empty list it invokes nothing and returns an empty
\* mapping.
C38_InvokedExactlyOnce ==
  pool.pc # "unused" =>
    /\ \A i \in DOMAIN pool.invoked : pool.invoked[i] <= 1
    /\ pool.pc \in { "returned", "raised" } =>
         \A i \in DOMAIN pool.invoked : pool.invoked[i] = 1
    /\ (pool.pc = "returned" /\ Len(pool.tool_calls) = 0) => pool.results = << >>

\* C39: every execution of the use_tools step returns exactly two tool_calls
\* entries, the market-data tool first and the cost-estimate tool second,
\* each with a status among success, failed and error; tool_results has the
\* key of a tool exactly when that tool's entry has status success, and
\* every other entry carries an error message.
C39_TwoToolEntries ==
  (path # << >> /\ path[Len(path)] = "use_tools") =>
    LET tool_calls == ret["tool_calls"]
        tool_results == ret["tool_results"]
    IN /\ Len(tool_calls) = 2
       /\ tool_calls[1].tool = "fetch_market_data"
       /\ tool_calls[2].tool = "estimate_project_cost"
       /\ \A i \in 1..2 :
            /\ tool_calls[i].status \in { "success", "failed", "error" }
            /\ tool_calls[i].status # "success" => "error" \in DOMAIN tool_calls[i]
       /\ DOMAIN tool_results \subseteq { "market_data", "cost_estimate" }
       /\ "market_data" \in DOMAIN tool_results <=> tool_calls[1].status = "success"
       /\ "cost_estimate" \in DOMAIN tool_results <=> tool_calls[2].status = "success"

\* use_tools ran on an empty scope: both tools refused it and nothing was
\* stored
C39_Witness ==
  /\ path # << >> /\ path[Len(path)] = "use_tools"
  /\ Len(ret["tool_calls"]) = 2
  /\ ret["tool_calls"][1].status = "failed"
  /\ ret["tool_calls"][2].status = "failed"
  /\ ret["tool_results"] = EmptyDict

\* C40: in the result run returns, comparison agrees with the final bids:
\* comparison.count is the number of bids, every bid of comparison.top is
\* one of the bids, and within a run no fetch or refetch step comes after
\* the compare step.
C40_ComparisonMatchesFinalBids ==
  /\ (~direct /\ pc = "returned") =>
        LET bids == returned["bids"]
            comparison == returned["comparison"]
        IN /\ comparison["count"] = Len(bids)
           /\ \A i \in 1..Len(comparison["top"]) :
                \E j \in 1..Len(bids) : bids[j] = comparison["top"][i]
  /\ ~direct =>
        \A i, j \in 1..Len(path) :
          (i < j /\ path[i] = "compare") => path[j] \notin { "fetch", "refetch" }

\* a run returned two bids and the cheaper of them as its top bid
C40_Witness ==
  /\ ~direct /\ pc = "returned"
  /\ Visited("fetch") /\ Visited("compare")
  /\ Len(returned["bids"]) = 2
  /\ returned["comparison"]["count"] = 2
  /\ Len(returned["comparison"]["top"]) = 1
  /\ returned["comparison"]["top"][1].price < returned["bids"][1].price

====
